---- MODULE Spec2Model ----
(***************************************************************************)
(* A model of the bubblexan OMR workflow: the bubble-sheet layout solver   *)
(* (generate_bubblesheet.py), the scoring engine (grade.py), the miss      *)
(* analyzer (analyze_misses.py) and the give-back adjuster                 *)
(* (give_back_questions.py), with the answer-key writer of                 *)
(* generate_test_from_qti.py.                                              *)
(*                                                                         *)
(* Lengths are Python floats in the source.  Every length of the layout    *)
(* is a sum of whole points and whole millimetres, and a millimetre is     *)
(* 72/25.4 = 360/127 points, so the model keeps lengths as integers in     *)
(* units of 1/(127*12) point: a point is 1524 units, a millimetre 4320,    *)
(* and the halvings and the division by (columns - 1) of the source are    *)
(* exact.                                                                  *)
(***************************************************************************)
EXTENDS Integers, Sequences, FiniteSets, TLC

VARIABLES
    args,       \* layout: the arguments of the call
    entry,      \* layout: "none", "main" or "generate_layout"
    outcome,    \* layout: "pending", "SystemExit", "ValueError" or "returned"
    layout,     \* layout: the layout returned, NoLayout before and on a raise
    sr_key_df,  \* scoring: the rows of the answer-key CSV
    sr_answer_map, \* scoring: the answer map load_answer_key made of them
    sr_row,     \* scoring: the response row handed to _score_row
    sr_scored,  \* scoring: whether _score_row has been called
    sr_result,  \* scoring: what _score_row returned or raised
    gr_key_df,  \* grading: the rows of the answer-key CSV
    gr_responses, \* grading: the rows of the responses CSV
    gr_files,   \* grading: graded_report.csv and graded_report.xlsx in the output directory
    gr_outcome, \* grading: "none", "GradingError" or "done"
    mi_args,    \* miss analysis: the arguments of the call of analyze_question
    mi_log,     \* miss analysis: the list log_entries
    mi_called,  \* miss analysis: whether analyze_question has been called
    mi_result,  \* miss analysis: what analyze_question returned
    gb_args,    \* give-back: the results CSV, the answer-key CSV, --give-back, --version,
                \* whether --log is given, and the files there when the run starts
    gb_pc,      \* give-back: "start", "loaded", "applied", "saved", "graded", "done",
                \* "AdjustmentError" or "KeyError"
    gb_files,   \* give-back: the output files of the version and the log file
    gb_question_ids, \* give-back: what parse_question_list returned
    gb_results_df, \* give-back: the results frame
    gb_answer_key, \* give-back: the answer-key frame
    gb_records, \* give-back: the records apply_give_backs returned
    ky_questions, \* answer key: the questions handed to write_answer_key
    ky_file,    \* answer key: the rows of the answer-key CSV, as text
    ky_columns, \* answer key: the column names of the results CSV
    ky_pc,      \* answer key: "questions" before the key is written, "file" after
    ky_grade,   \* answer key: what load_answer_key of grade.py made of the file
    ky_miss,    \* answer key: what load_answer_key of analyze_misses.py made of it
    ky_give_back, \* answer key: what load_answer_key of give_back_questions.py made of it
    ag_key,     \* agreement: the key row of the question, its cell and its points
    ag_cell,    \* agreement: the selected_answers cell of one response
    ag_tokens,  \* agreement: what the two tokenizers made of the cell
    ag_score,   \* agreement: what _score_row returned for the response
    ag_miss,    \* agreement: what analyze_question returned for the response
    rc_args,    \* two give-back runs: the inputs and the --give-back list of each run
    rc_runs,    \* two give-back runs: where each run is in main, and what it holds
    rc_files,   \* two give-back runs: the files of the output directory they share
    rc_trace,   \* two give-back runs: the checks and the writes so far, in order
    tb_current, \* tab widget: the index of the current tab
    tb_handler, \* tab widget: the index _handle_tab_change was called with, -1 when it is not running
    tb_active,  \* tab widget: config.ACTIVE_TEST_NAME
    tb_folders, \* tab widget: the folders of TEST_BUILD_PATH
    tb_titles,  \* tab widget: _existing_titles of the Test Manager tab
    tb_selector, \* tab widget: the items of test_selector and its current index
    tb_dialog,  \* tab widget: the message box shown last
    fz_adjustments, \* grade adjustment tab: the files of adjustments/
    fz_grades,  \* grade adjustment tab: the files of grades/
    fz_combo,   \* grade adjustment tab: the items of version_combo and its current index
    fz_dialog   \* grade adjustment tab: the message box shown last

layoutVars == <<args, entry, outcome, layout>>
scoreVars == <<sr_key_df, sr_answer_map, sr_row, sr_scored, sr_result>>
gradeVars == <<gr_key_df, gr_responses, gr_files, gr_outcome>>
missVars == <<mi_args, mi_log, mi_called, mi_result>>
giveBackVars ==
    <<gb_args, gb_pc, gb_files, gb_question_ids, gb_results_df, gb_answer_key, gb_records>>
keyVars == <<ky_questions, ky_file, ky_columns, ky_pc, ky_grade, ky_miss, ky_give_back>>
agreeVars == <<ag_key, ag_cell, ag_tokens, ag_score, ag_miss>>
raceVars == <<rc_args, rc_runs, rc_files, rc_trace>>
tabVars == <<tb_current, tb_handler, tb_active, tb_folders, tb_titles, tb_selector, tb_dialog>>
finalizeVars == <<fz_adjustments, fz_grades, fz_combo, fz_dialog>>
vars ==
    <<layoutVars, scoreVars, gradeVars, missVars,
      giveBackVars, keyVars, agreeVars, raceVars,
      tabVars, finalizeVars>>

\* A component that takes no part in a run stays in its idle state.
IdleLayout == args = <<>> /\ entry = "off" /\ outcome = "pending" /\ layout = <<>>
IdleScore ==
    /\ sr_key_df = <<>>
    /\ sr_answer_map = <<>>
    /\ sr_row = <<>>
    /\ sr_scored = FALSE
    /\ sr_result = <<>>
IdleGrade == gr_key_df = <<>> /\ gr_responses = <<>> /\ gr_files = <<>> /\ gr_outcome = "off"

IdleMiss == mi_args = <<>> /\ mi_log = <<>> /\ mi_called = FALSE /\ mi_result = <<>>

IdleGiveBack ==
    /\ gb_args = <<>>
    /\ gb_pc = "off"
    /\ gb_files = <<>>
    /\ gb_question_ids = <<>>
    /\ gb_results_df = <<>>
    /\ gb_answer_key = <<>>
    /\ gb_records = <<>>

NotLoaded == [kind |-> "not loaded"]
IdleKey ==
    /\ ky_questions = <<>>
    /\ ky_file = <<>>
    /\ ky_columns = <<>>
    /\ ky_pc = "off"
    /\ ky_grade = NotLoaded
    /\ ky_miss = NotLoaded
    /\ ky_give_back = NotLoaded

IdleAgree ==
    /\ ag_key = <<>>
    /\ ag_cell = <<>>
    /\ ag_tokens = NotLoaded
    /\ ag_score = NotLoaded
    /\ ag_miss = NotLoaded

IdleRace == rc_args = <<>> /\ rc_runs = <<>> /\ rc_files = <<>> /\ rc_trace = <<>>

IdleTabs ==
    /\ tb_current = -1
    /\ tb_handler = -1
    /\ tb_active = <<>>
    /\ tb_folders = {}
    /\ tb_titles = {}
    /\ tb_selector = <<>>
    /\ tb_dialog = "off"

IdleFinalize ==
    /\ fz_adjustments = <<>>
    /\ fz_grades = <<>>
    /\ fz_combo = <<>>
    /\ fz_dialog = "off"

LayoutOnly == IdleScore /\ IdleGrade /\ IdleMiss /\ IdleGiveBack /\ IdleKey /\ IdleAgree /\ IdleRace /\ IdleTabs /\ IdleFinalize
ScoreOnly == IdleLayout /\ IdleGrade /\ IdleMiss /\ IdleGiveBack /\ IdleKey /\ IdleAgree /\ IdleRace /\ IdleTabs /\ IdleFinalize
GradeOnly == IdleLayout /\ IdleScore /\ IdleMiss /\ IdleGiveBack /\ IdleKey /\ IdleAgree /\ IdleRace /\ IdleTabs /\ IdleFinalize
MissOnly == IdleLayout /\ IdleScore /\ IdleGrade /\ IdleGiveBack /\ IdleKey /\ IdleAgree /\ IdleRace /\ IdleTabs /\ IdleFinalize
GiveBackOnly == IdleLayout /\ IdleScore /\ IdleGrade /\ IdleMiss /\ IdleKey /\ IdleAgree /\ IdleRace /\ IdleTabs /\ IdleFinalize
KeyOnly == IdleLayout /\ IdleScore /\ IdleGrade /\ IdleMiss /\ IdleGiveBack /\ IdleAgree /\ IdleRace /\ IdleTabs /\ IdleFinalize
AgreeOnly == IdleLayout /\ IdleScore /\ IdleGrade /\ IdleMiss /\ IdleGiveBack /\ IdleKey /\ IdleRace /\ IdleTabs /\ IdleFinalize
RaceOnly == IdleLayout /\ IdleScore /\ IdleGrade /\ IdleMiss /\ IdleGiveBack /\ IdleKey /\ IdleAgree /\ IdleTabs /\ IdleFinalize
TabsOnly == IdleLayout /\ IdleScore /\ IdleGrade /\ IdleMiss /\ IdleGiveBack /\ IdleKey /\ IdleAgree /\ IdleRace /\ IdleFinalize
FinalizeOnly == IdleLayout /\ IdleScore /\ IdleGrade /\ IdleMiss /\ IdleGiveBack /\ IdleKey /\ IdleAgree /\ IdleRace /\ IdleTabs

Max(a, b) == IF a >= b THEN a ELSE b
Min(a, b) == IF a <= b THEN a ELSE b

(***************************************************************************)
(* generate_bubblesheet.py: constants and settings                         *)
(***************************************************************************)
UnitsPerPoint == 127 * 12

\* MM_TO_POINTS = 72.0 / 25.4, in units: value * 72 / 25.4 * UnitsPerPoint.
mm_to_points(value) == (value * 72 * UnitsPerPoint * 10) \div 254

points(value) == value * UnitsPerPoint

QUESTIONS_RANGE == <<1, 50>>
ID_LENGTH_RANGE == <<4, 10>>
OPTIONS == <<"A", "B", "C", "D", "E">>
ID_ORIENTATIONS == {"vertical", "horizontal"}
PAPER_SIZES == [A4 |-> <<595, 842>>, LETTER |-> <<612, 792>>]
PAPER_NAMES == {"A4", "LETTER"}
ID_VALUES == <<"0", "1", "2", "3", "4", "5", "6", "7", "8", "9">>

build_layout_settings ==
    LET bubble_diameter == mm_to_points(4)
    IN  [margin |-> points(36),
         bubble_radius |-> bubble_diameter \div 2,
         question_label_width |-> mm_to_points(12),
         question_row_height |-> bubble_diameter + mm_to_points(4),
         question_column_spacing |-> mm_to_points(14),
         question_column_spacing_min |-> mm_to_points(6),
         option_step |-> bubble_diameter + mm_to_points(4),
         option_label_gap |-> (mm_to_points(5)) \div 2,
         id_column_step |-> bubble_diameter + mm_to_points(6),
         id_vertical_step |-> bubble_diameter + mm_to_points(3),
         section_gap |-> mm_to_points(14),
         title_block |-> mm_to_points(18),
         student_id_header_gap |-> mm_to_points(8),
         digit_label_gap |-> (mm_to_points(5)) \div 2,
         student_id_marker_clearance |-> mm_to_points(6),
         alignment_clearance |-> mm_to_points(6)]

\* paper_key.upper() and id_orientation.lower() on the argument strings the model draws.
paper_key_upper(s) ==
    CASE s = "a4" -> "A4"
      [] s = "letter" -> "LETTER"
      [] s = "Letter" -> "LETTER"
      [] OTHER -> s

id_orientation_lower(s) ==
    CASE s = "Vertical" -> "vertical"
      [] s = "HORIZONTAL" -> "horizontal"
      [] OTHER -> s

\* Mutant of validate_inputs: the check of id_length is left out.
validate_inputs_questions_only(questions, id_length) ==
    ~(QUESTIONS_RANGE[1] <= questions /\ questions <= QUESTIONS_RANGE[2])

\* validate_inputs: TRUE when it raises ValueError.
validate_inputs_raises(questions, id_length) ==
    \/ ~(QUESTIONS_RANGE[1] <= questions /\ questions <= QUESTIONS_RANGE[2])
    \/ ~(ID_LENGTH_RANGE[1] <= id_length /\ id_length <= ID_LENGTH_RANGE[2])

build_alignment_markers(width, height, settings) ==
    LET size == mm_to_points(12)
        offset == settings.margin \div 2
    IN  << [type |-> "square", x |-> offset, y |-> offset, size |-> size],
           [type |-> "square", x |-> width - offset - size, y |-> offset, size |-> size],
           [type |-> "square", x |-> offset, y |-> height - offset - size, size |-> size],
           [type |-> "square", x |-> width - offset - size, y |-> height - offset - size,
            size |-> size] >>

\* compute_student_id_clearance: the least (y - clearance) over the markers of
\* the upper half of the page; None (here -1) when there is none.
RECURSIVE student_id_limits(_, _, _, _)
student_id_limits(markers, i, halfway2, clearance) ==
    IF i > Len(markers) THEN {}
    ELSE LET marker == markers[i]
             marker_is_top == (2 * marker.y + marker.size) >= halfway2
             rest == student_id_limits(markers, i + 1, halfway2, clearance)
         IN  IF marker_is_top THEN {marker.y - clearance} \cup rest ELSE rest

None == 0 - 1

compute_student_id_clearance(markers, page_height, clearance) ==
    IF Len(markers) = 0 THEN None
    ELSE LET limits == student_id_limits(markers, 1, page_height, clearance)
         IN  IF limits = {} THEN None
             ELSE CHOOSE m \in limits : \A n \in limits : m <= n

\* compute_horizontal_safe_area: the for loop over the markers.
RECURSIVE safe_area_loop(_, _, _, _, _, _)
safe_area_loop(markers, i, page_width, clearance, left, right) ==
    IF i > Len(markers) THEN <<left, right>>
    ELSE LET marker == markers[i]
             center_x2 == 2 * marker.x + marker.size
         IN  IF center_x2 <= page_width
             THEN safe_area_loop(markers, i + 1, page_width, clearance,
                                 Max(left, marker.x + marker.size + clearance), right)
             ELSE safe_area_loop(markers, i + 1, page_width, clearance,
                                 left, Min(right, marker.x - clearance))

compute_horizontal_safe_area(markers, page_width, margin, clearance) ==
    LET left == margin
        right == page_width - margin
    IN  IF Len(markers) = 0 THEN <<left, right>>
        ELSE LET lr == safe_area_loop(markers, 1, page_width, clearance, left, right)
             IN  IF lr[2] <= lr[1] THEN <<margin, page_width - margin>> ELSE lr

(***************************************************************************)
(* generate_bubblesheet.py: the student-ID section                         *)
(***************************************************************************)
\* A raise is modelled by raised = TRUE; value is then unused.
Raise(msg) == [raised |-> TRUE, error |-> msg, value |-> <<>>, bottom |-> 0]

build_student_id_layout_vertical(id_length, area_left, usable_width, top_center_y, settings) ==
    LET total_width == (id_length - 1) * settings.id_column_step + (2 * settings.bubble_radius)
        start_x == area_left + (usable_width - total_width) \div 2
        column(digit_index) ==
            LET column_center_x ==
                    start_x + settings.bubble_radius + digit_index * settings.id_column_step
                label_y == top_center_y + settings.bubble_radius + settings.digit_label_gap
            IN  [digit_index |-> digit_index + 1,
                 label_position |-> [x |-> column_center_x - settings.bubble_radius, y |-> label_y],
                 bubbles |-> [v \in 1..10 |->
                     [value |-> ID_VALUES[v],
                      x |-> column_center_x,
                      y |-> top_center_y - ((v - 1) * settings.id_vertical_step),
                      radius |-> settings.bubble_radius]]]
    IN  IF total_width > usable_width
        THEN Raise("Student ID section does not fit horizontally. Reduce id-length.")
        ELSE [raised |-> FALSE, error |-> "",
              value |-> [d \in 1..Max(id_length, 0) |-> column(d - 1)],
              bottom |-> top_center_y - (9 * settings.id_vertical_step)]

build_student_id_layout_horizontal(id_length, area_left, usable_width, top_center_y, settings) ==
    LET num_values == 10
        total_width == (num_values - 1) * settings.id_column_step + (2 * settings.bubble_radius)
        start_x == area_left + (usable_width - total_width) \div 2
        label_x_offset == settings.question_label_width \div 2 + settings.option_label_gap
        column(digit_index) ==
            LET center_y == top_center_y - digit_index * settings.id_vertical_step
                label_x == start_x - label_x_offset
            IN  [digit_index |-> digit_index + 1,
                 label_position |-> [x |-> label_x, y |-> center_y - settings.bubble_radius \div 2],
                 bubbles |-> [v \in 1..num_values |->
                     [value |-> ID_VALUES[v],
                      x |-> start_x + settings.bubble_radius + (v - 1) * settings.id_column_step,
                      y |-> center_y,
                      radius |-> settings.bubble_radius]]]
    IN  IF total_width > usable_width
        THEN Raise("Student ID section does not fit horizontally. Reduce id-length or paper size.")
        ELSE [raised |-> FALSE, error |-> "",
              value |-> [d \in 1..Max(id_length, 0) |-> column(d - 1)],
              bottom |-> top_center_y - (Max(0, id_length - 1) * settings.id_vertical_step)]

build_student_id_layout(id_length, area_left, usable_width, top_center_y, orientation, settings) ==
    IF orientation = "horizontal"
    THEN build_student_id_layout_horizontal(id_length, area_left, usable_width, top_center_y, settings)
    ELSE build_student_id_layout_vertical(id_length, area_left, usable_width, top_center_y, settings)

(***************************************************************************)
(* generate_bubblesheet.py: the question grid                              *)
(***************************************************************************)
question_block_width(settings) ==
    settings.question_label_width + (2 * settings.bubble_radius)
        + settings.option_step * (Len(OPTIONS) - 1)

\* Mutant of spacing_for_columns: the spacing fills the width, without the
\* clamp to question_column_spacing.
spacing_for_columns_unclamped(column_count, available_width, settings) ==
    LET total_block_width == column_count * question_block_width(settings)
    IN  IF column_count = 1
        THEN (IF question_block_width(settings) <= available_width THEN 0 ELSE None)
        ELSE IF total_block_width > available_width THEN None
        ELSE LET max_spacing_allowed ==
                     (available_width - total_block_width) \div (column_count - 1)
             IN  IF max_spacing_allowed < settings.question_column_spacing_min THEN None
                 ELSE max_spacing_allowed

\* The inner function spacing_for_columns; None when the columns do not fit.
spacing_for_columns(column_count, available_width, settings) ==
    LET total_block_width == column_count * question_block_width(settings)
    IN  IF column_count = 1
        THEN (IF question_block_width(settings) <= available_width THEN 0 ELSE None)
        ELSE IF total_block_width > available_width THEN None
        ELSE LET max_spacing_allowed ==
                     (available_width - total_block_width) \div (column_count - 1)
             IN  IF max_spacing_allowed < settings.question_column_spacing_min THEN None
                 ELSE Min(settings.question_column_spacing, max_spacing_allowed)

\* Mutant of rows_needed: the quotient is rounded down instead of up.
rows_needed_floor(questions, column_count) == questions \div column_count

\* math.ceil(questions / column_count), column_count >= 1.
rows_needed(questions, column_count) ==
    IF questions <= 0 THEN 0 - ((0 - questions) \div column_count)
    ELSE (questions + column_count - 1) \div column_count

max_rows_by_height(available_height, settings) ==
    Max(1, available_height \div settings.question_row_height)

max_columns_by_width(available_width, settings) ==
    Max(1, (available_width + settings.question_column_spacing_min)
               \div (question_block_width(settings) + settings.question_column_spacing_min))

\* Mutant of column_search: the counts are tried from 1 upwards.
column_search_ascending(column_count, questions, available_width, max_rows, settings) ==
    LET fitting == {c \in 1..column_count :
                       /\ spacing_for_columns(c, available_width, settings) # None
                       /\ rows_needed(questions, c) <= max_rows}
    IN  IF fitting = {} THEN 0 ELSE CHOOSE c \in fitting : \A d \in fitting : c <= d

\* for column_count in range(max_columns, 0, -1): the first count that has a
\* spacing and whose rows fit; 0 when the loop ends without a choice.
RECURSIVE column_search(_, _, _, _, _)
column_search(column_count, questions, available_width, max_rows, settings) ==
    IF column_count < 1 THEN 0
    ELSE IF spacing_for_columns(column_count, available_width, settings) = None
         THEN column_search(column_count - 1, questions, available_width, max_rows, settings)
    ELSE IF rows_needed(questions, column_count) <= max_rows THEN column_count
    ELSE column_search(column_count - 1, questions, available_width, max_rows, settings)

question_entry(question_number, column_x, center_y, settings) ==
    LET first_bubble_x == column_x + settings.question_label_width + settings.bubble_radius
    IN  [number |-> question_number,
         label_position |-> [x |-> column_x, y |-> center_y],
         bubbles |-> [option_index \in 1..Len(OPTIONS) |->
             [option |-> OPTIONS[option_index],
              x |-> first_bubble_x + (option_index - 1) * settings.option_step,
              y |-> center_y,
              radius |-> settings.bubble_radius]]]

\* Mutant of question_center_y: the rows are one bubble radius apart.
question_center_y_packed(area_top, row_index, settings) ==
    area_top - row_index * settings.bubble_radius

question_center_y(area_top, row_index, settings) ==
    area_top - row_index * settings.question_row_height

\* Mutant of question_loop: the grid is filled row by row.
question_loop_row_major(column_index, row_index, question_number, acc, questions, chosen_columns, chosen_rows, column_step, geometry, settings) ==
    [n \in 1..questions |->
        question_entry(n, geometry.start_x + ((n - 1) % chosen_columns) * column_step,
                       question_center_y(geometry.area_top, (n - 1) \div chosen_columns, settings),
                       settings)]

\* The two nested for loops that fill the grid, with the break on
\* question_number > questions.
RECURSIVE question_loop(_, _, _, _, _, _, _, _, _, _)
question_loop(column_index, row_index, question_number, acc, questions, chosen_columns, chosen_rows, column_step, geometry, settings) ==
    IF column_index >= chosen_columns THEN acc
    ELSE IF row_index >= chosen_rows \/ question_number > questions
         THEN question_loop(column_index + 1, 0, question_number, acc,
                            questions, chosen_columns, chosen_rows, column_step, geometry, settings)
    ELSE question_loop(column_index, row_index + 1, question_number + 1,
             Append(acc, question_entry(question_number,
                                        geometry.start_x + column_index * column_step,
                                        question_center_y(geometry.area_top, row_index, settings),
                                        settings)),
             questions, chosen_columns, chosen_rows, column_step, geometry, settings)

build_question_layout(questions, area_top, start_x, available_width, settings) ==
    LET available_height == area_top - (settings.margin + settings.bubble_radius)
        max_rows == max_rows_by_height(available_height, settings)
        max_columns == Min(questions, max_columns_by_width(available_width, settings))
        chosen_columns == column_search(max_columns, questions, available_width, max_rows, settings)
        chosen_rows == rows_needed(questions, chosen_columns)
        column_spacing == spacing_for_columns(chosen_columns, available_width, settings)
    IN  IF available_height <= settings.question_row_height
        THEN [raised |-> TRUE,
              error |-> "Not enough vertical space for the questions section. Try reducing id-length.",
              value |-> <<>>, meta |-> [columns |-> 0, rows |-> 0, column_spacing |-> 0]]
        ELSE IF chosen_columns = 0
        THEN [raised |-> TRUE,
              error |-> "Question grid cannot fit on the selected paper size with the current parameters.",
              value |-> <<>>, meta |-> [columns |-> 0, rows |-> 0, column_spacing |-> 0]]
        ELSE [raised |-> FALSE, error |-> "",
              value |-> question_loop(0, 0, 1, <<>>, questions, chosen_columns, chosen_rows,
                                      question_block_width(settings) + column_spacing,
                                      [start_x |-> start_x, area_top |-> area_top], settings),
              meta |-> [columns |-> chosen_columns, rows |-> chosen_rows,
                        column_spacing |-> column_spacing]]

(***************************************************************************)
(* generate_bubblesheet.py: generate_layout and main                       *)
(***************************************************************************)
NoMetadata ==
    [num_questions |-> 0, id_length |-> 0, student_id_orientation |-> "",
     bubble_radius |-> 0, bubble_diameter |-> 0, question_row_height |-> 0,
     option_step |-> 0, option_label_gap |-> 0, id_vertical_step |-> 0,
     id_column_step |-> 0, question_column_spacing |-> 0, question_columns |-> 0,
     question_rows |-> 0, student_id_header_gap |-> 0, digit_label_gap |-> 0,
     content_left |-> 0, content_right |-> 0, margin |-> 0,
     question_area_top |-> 0, student_id_label_y |-> 0]

NoLayout ==
    [paper_size |-> "", dimensions |-> [width |-> 0, height |-> 0],
     questions |-> <<>>, student_id |-> <<>>, alignment_markers |-> <<>>,
     metadata |-> NoMetadata]

LayoutRaise(msg) == [raised |-> TRUE, error |-> msg, value |-> NoLayout]

\* Mutant of student_id_top_y: the title block and the marker clearance are
\* left out, the first bubble row is centred on the margin line.
student_id_top_y_at_margin(markers, height, settings) == height - settings.margin

\* The top centre of the student-ID bubbles: below the title block and below
\* the clearance limit of the upper alignment markers.
student_id_top_y(markers, height, settings) ==
    LET id_top_y == height - settings.margin - settings.title_block
        clearance_limit ==
            compute_student_id_clearance(markers, height, settings.student_id_marker_clearance)
        max_center ==
            clearance_limit - (settings.bubble_radius + settings.student_id_header_gap)
    IN  IF clearance_limit # None THEN Min(id_top_y, max_center) ELSE id_top_y

generate_layout(questions, id_length, paper_key, id_orientation, settings) ==
    LET paper_name == paper_key_upper(paper_key)
        orientation == id_orientation_lower(id_orientation)
        width == points(PAPER_SIZES[paper_name][1])
        height == points(PAPER_SIZES[paper_name][2])
        markers == build_alignment_markers(width, height, settings)
        safe == compute_horizontal_safe_area(markers, width, settings.margin,
                                             settings.alignment_clearance)
        safe_left == safe[1]
        safe_right == safe[2]
        usable_width == safe_right - safe_left
        id_top_y == student_id_top_y(markers, height, settings)
        student_id_label_y == id_top_y + settings.bubble_radius + settings.student_id_header_gap
        student_id == build_student_id_layout(id_length, safe_left, usable_width, id_top_y,
                                              orientation, settings)
        question_area_top == student_id.bottom - settings.bubble_radius - settings.section_gap
        question == build_question_layout(questions, question_area_top, safe_left,
                                          usable_width, settings)
    IN  IF paper_name \notin PAPER_NAMES
        THEN LayoutRaise("paper-size must be one of: A4, LETTER")
        ELSE IF orientation \notin ID_ORIENTATIONS
        THEN LayoutRaise("id-orientation must be one of: vertical, horizontal")
        ELSE IF usable_width <= 0
        THEN LayoutRaise("Unable to place content horizontally")
        ELSE IF student_id.raised THEN LayoutRaise(student_id.error)
        ELSE IF question.raised THEN LayoutRaise(question.error)
        ELSE [raised |-> FALSE, error |-> "",
              value |->
                [paper_size |-> paper_name,
                 dimensions |-> [width |-> width, height |-> height],
                 questions |-> question.value,
                 student_id |-> student_id.value,
                 alignment_markers |-> markers,
                 metadata |->
                   [num_questions |-> questions,
                    id_length |-> id_length,
                    student_id_orientation |-> orientation,
                    bubble_radius |-> settings.bubble_radius,
                    bubble_diameter |-> settings.bubble_radius * 2,
                    question_row_height |-> settings.question_row_height,
                    option_step |-> settings.option_step,
                    option_label_gap |-> settings.option_label_gap,
                    id_vertical_step |-> settings.id_vertical_step,
                    id_column_step |-> settings.id_column_step,
                    question_column_spacing |-> question.meta.column_spacing,
                    question_columns |-> question.meta.columns,
                    question_rows |-> question.meta.rows,
                    student_id_header_gap |-> settings.student_id_header_gap,
                    digit_label_gap |-> settings.digit_label_gap,
                    content_left |-> safe_left,
                    content_right |-> safe_right,
                    margin |-> settings.margin,
                    question_area_top |-> question_area_top,
                    student_id_label_y |-> student_id_label_y]]]

\* The arguments the model draws.
MaxQuestionsArg == 52
MaxIdLengthArg == 12
PaperArgs == {"A4", "LETTER", "letter", "B5"}
OrientationArgs == {"vertical", "horizontal", "Vertical", "diagonal"}
\* An ID so long that its rows, laid out one under the other, leave less than
\* one question row of height.
TallIdLength == 33
LayoutArgs ==
    [questions : (0 - 1)..MaxQuestionsArg, id_length : (0..MaxIdLengthArg) \cup {TallIdLength},
     paper_size : PaperArgs, id_orientation : OrientationArgs]

InitLayout ==
    /\ args \in LayoutArgs
    /\ entry = "none"
    /\ outcome = "pending"
    /\ layout = NoLayout
    /\ LayoutOnly

\* main: parse_args (argparse refuses a paper size or an orientation that is
\* not one of its choices), validate_inputs, then generate_layout.
Main ==
    /\ entry = "none"
    /\ entry' = "main"
    /\ args' = args
    /\ UNCHANGED <<scoreVars, gradeVars, missVars, giveBackVars, keyVars, agreeVars, raceVars, tabVars, finalizeVars>>
    /\ IF args.paper_size \notin PAPER_NAMES \/ args.id_orientation \notin ID_ORIENTATIONS
       THEN outcome' = "SystemExit" /\ layout' = NoLayout
       ELSE IF validate_inputs_raises(args.questions, args.id_length)
       THEN outcome' = "ValueError" /\ layout' = NoLayout
       ELSE LET r == generate_layout(args.questions, args.id_length, args.paper_size,
                                     args.id_orientation, build_layout_settings)
            IN  IF r.raised THEN outcome' = "ValueError" /\ layout' = NoLayout
                ELSE outcome' = "returned" /\ layout' = r.value

\* generate_layout called as a function, without main's checks before it.
GenerateLayout ==
    /\ entry = "none"
    /\ entry' = "generate_layout"
    /\ args' = args
    /\ UNCHANGED <<scoreVars, gradeVars, missVars, giveBackVars, keyVars, agreeVars, raceVars, tabVars, finalizeVars>>
    /\ LET r == generate_layout(args.questions, args.id_length, args.paper_size,
                                args.id_orientation, build_layout_settings)
       IN  IF r.raised THEN outcome' = "ValueError" /\ layout' = NoLayout
           ELSE outcome' = "returned" /\ layout' = r.value

NextLayout == Main \/ GenerateLayout

SpecLayout == InitLayout /\ [][NextLayout]_vars

(***************************************************************************)
(* Claims about the layout solver (checked under SpecLayout)               *)
(***************************************************************************)
QuestionBubbles(L) ==
    {L.questions[i].bubbles[j] : i \in 1..Len(L.questions), j \in 1..Len(OPTIONS)}

StudentIdBubbles(L) ==
    {L.student_id[i].bubbles[j] : i \in 1..Len(L.student_id), j \in 1..Len(ID_VALUES)}

AllBubbles(L) == QuestionBubbles(L) \cup StudentIdBubbles(L)

\* The ranges the claims name: question_count in [1,50], id_length in [4,10].
ArgsInRange == args.questions \in 1..50 /\ args.id_length \in 4..10

BubbleInsideMargins(b, L) ==
    LET margin == build_layout_settings.margin
    IN  /\ margin <= b.x - b.radius
        /\ b.x + b.radius <= L.dimensions.width - margin
        /\ margin <= b.y - b.radius
        /\ b.y + b.radius <= L.dimensions.height - margin

CenterInMarkerZone(b, marker) ==
    LET clearance == build_layout_settings.alignment_clearance
    IN  /\ marker.x - clearance <= b.x
        /\ b.x <= marker.x + marker.size + clearance
        /\ marker.y - clearance <= b.y
        /\ b.y <= marker.y + marker.size + clearance

\* C1: when generate_layout returns for question_count in 1..50 and id_length
\* in 4..10, every question bubble and every student-ID bubble lies, centre
\* plus/minus radius, inside [margin, width - margin] x [margin, height - margin],
\* and no bubble centre lies in an alignment marker's square enlarged by
\* alignment_clearance on every side.
C1_BubblesInsideContentArea ==
    (outcome = "returned" /\ ArgsInRange) =>
        \A b \in AllBubbles(layout) :
            /\ BubbleInsideMargins(b, layout)
            /\ \A i \in 1..Len(layout.alignment_markers) :
                   ~CenterInMarkerZone(b, layout.alignment_markers[i])

C1_Witness ==
    /\ outcome = "returned"
    /\ entry = "generate_layout"
    /\ args.questions = 50
    /\ args.id_length = 10
    /\ args.paper_size = "LETTER"
    /\ args.id_orientation = "horizontal"
    /\ Cardinality(AllBubbles(layout)) = 350

\* C2: generate_layout never truncates: whenever it returns, the questions
\* list has exactly question_count entries, numbered 1..question_count in
\* order, each with the five bubbles A, B, C, D, E in that order.
C2_NoTruncation ==
    outcome = "returned" =>
        /\ Len(layout.questions) = args.questions
        /\ \A n \in 1..Len(layout.questions) :
               /\ layout.questions[n].number = n
               /\ Len(layout.questions[n].bubbles) = 5
               /\ \A j \in 1..5 : layout.questions[n].bubbles[j].option = OPTIONS[j]

C2_Witness ==
    /\ outcome = "returned"
    /\ args.questions = 50
    /\ args.id_length = 10
    /\ args.paper_size = "LETTER"
    /\ args.id_orientation = "vertical"
    /\ layout.metadata.question_columns * layout.metadata.question_rows > 50
    /\ Len(layout.questions) = 50

\* C3 as stated: every call, of main or of generate_layout itself, with
\* question_count outside [1,50] or id_length outside [4,10] fails with a
\* validation error and returns no layout.
C3_Original ==
    (entry # "none" /\ ~ArgsInRange) => (outcome # "returned" /\ layout = NoLayout)

\* C3 as amended: a run of main (validate_inputs, then generate_layout) with
\* question_count outside [1,50] or id_length outside [4,10] returns no
\* layout, and ends in the ValueError of validation whenever argparse accepted
\* the paper size and the orientation.
C3_MainRejectsOutOfRange ==
    (entry = "main" /\ ~ArgsInRange) =>
        /\ layout = NoLayout
        /\ outcome \in {"ValueError", "SystemExit"}
        /\ (args.paper_size \in PAPER_NAMES /\ args.id_orientation \in ID_ORIENTATIONS)
               => outcome = "ValueError"

C3_Witness ==
    /\ entry = "main"
    /\ args.questions = 51
    /\ args.id_length = 4
    /\ args.paper_size = "A4"
    /\ args.id_orientation = "horizontal"
    /\ outcome = "ValueError"
    /\ ~generate_layout(51, 4, "A4", "horizontal", build_layout_settings).raised

\* The call of build_question_layout that generate_layout makes for the
\* drawn arguments: whether it is reached, and its available width and height.
QuestionCall ==
    LET settings == build_layout_settings
        paper_name == paper_key_upper(args.paper_size)
        orientation == id_orientation_lower(args.id_orientation)
        width == points(PAPER_SIZES[paper_name][1])
        height == points(PAPER_SIZES[paper_name][2])
        markers == build_alignment_markers(width, height, settings)
        safe == compute_horizontal_safe_area(markers, width, settings.margin,
                                             settings.alignment_clearance)
        usable_width == safe[2] - safe[1]
        student_id == build_student_id_layout(args.id_length, safe[1], usable_width,
                                              student_id_top_y(markers, height, settings),
                                              orientation, settings)
        area_top == student_id.bottom - settings.bubble_radius - settings.section_gap
    IN  IF paper_name \notin PAPER_NAMES \/ orientation \notin ID_ORIENTATIONS
        THEN [reached |-> FALSE, available_width |-> 0, available_height |-> 0]
        ELSE [reached |-> usable_width > 0 /\ ~student_id.raised,
              available_width |-> usable_width,
              available_height |-> area_top - (settings.margin + settings.bubble_radius)]
QuestionCallReached ==
    /\ outcome # "pending"
    /\ QuestionCall.reached
    /\ entry = "main" =>
           /\ args.paper_size \in PAPER_NAMES
           /\ args.id_orientation \in ID_ORIENTATIONS
           /\ ArgsInRange

\* The column counts C of the claim: 1 <= C <= min(questions, the maximum the
\* width allows), C blocks fit the width with a spacing of at least
\* question_column_spacing_min between them (none asked for C = 1), and
\* ceil(questions / C) <= max_rows_by_height.
FittingColumns ==
    LET settings == build_layout_settings
        block == settings.question_label_width + 2 * settings.bubble_radius
                     + 4 * settings.option_step
        minimum == settings.question_column_spacing_min
        call == QuestionCall
        available_width == call.available_width
        by_width == Max(1, (available_width + minimum) \div (block + minimum))
        by_height == Max(1, call.available_height \div settings.question_row_height)
    IN  {C \in 1..Min(args.questions, by_width) :
            /\ C * block <= available_width
            /\ C > 1 => available_width - C * block >= (C - 1) * minimum
            /\ (args.questions + C - 1) \div C <= by_height}
LargestFitting ==
    LET fitting == FittingColumns
    IN  CHOOSE C \in fitting : \A D \in fitting : D <= C
ChosenAsClaimed ==
    LET largest == LargestFitting
    IN  /\ outcome = "returned"
        /\ layout.metadata.question_columns = largest
        /\ layout.metadata.question_rows = (args.questions + largest - 1) \div largest
TooLowForARow ==
    QuestionCall.available_height <= build_layout_settings.question_row_height

\* C20 as stated: build_question_layout takes the largest fitting column
\* count C and ceil(questions / C) rows, and raises if and only if no column
\* count fits.
C20_Original ==
    QuestionCallReached =>
        IF FittingColumns = {} THEN outcome = "ValueError" ELSE ChosenAsClaimed

\* C20 as amended: build_question_layout raises when the available height is
\* not more than one question row; otherwise it raises if and only if no
\* column count fits, and takes the largest fitting column count C and
\* ceil(questions / C) rows when one does.
C20_LargestFittingColumns ==
    QuestionCallReached =>
        IF TooLowForARow \/ FittingColumns = {}
        THEN outcome = "ValueError"
        ELSE ChosenAsClaimed

\* 20 questions under a vertical ID of 10 digits on A4, through main: the
\* counts 1, 2 and 3 fit, 3 is taken, with 7 rows.
C20_Witness ==
    /\ outcome = "returned"
    /\ entry = "main"
    /\ args = [questions |-> 20, id_length |-> 10, paper_size |-> "A4",
               id_orientation |-> "vertical"]
    /\ ~TooLowForARow
    /\ FittingColumns = {1, 2, 3}
    /\ layout.metadata.question_columns = 3
    /\ layout.metadata.question_rows = 7

\* The place of question n in a returned layout, read from its metadata:
\* column-major with R = question_rows.
GridColumn(n) == (n - 1) \div layout.metadata.question_rows
GridRow(n) == (n - 1) % layout.metadata.question_rows
BlockWidth ==
    build_layout_settings.question_label_width + 2 * build_layout_settings.bubble_radius
        + 4 * build_layout_settings.option_step

\* C21: in every returned layout question n (1 <= n <= question_count) is in
\* column (n-1) div R and row (n-1) mod R, R = question_rows: its y is
\* question_area_top - row * question_row_height, its label x is
\* content_left + column * (block width + column spacing), and its five
\* bubbles share that y, their x increasing by option_step from A to E.
C21_ColumnMajorPlacement ==
    outcome = "returned" =>
        \A n \in 1..Len(layout.questions) :
            LET q == layout.questions[n]
                m == layout.metadata
                y == m.question_area_top - GridRow(n) * m.question_row_height
            IN  /\ q.label_position.y = y
                /\ q.label_position.x
                       = m.content_left + GridColumn(n) * (BlockWidth + m.question_column_spacing)
                /\ \A j \in 1..5 : q.bubbles[j].y = y
                /\ \A j \in 1..4 : q.bubbles[j + 1].x = q.bubbles[j].x + m.option_step
                /\ q.bubbles[1].x > q.label_position.x

\* 20 questions in 3 columns of 7 rows: question 8 heads the second column,
\* question 20 is the sixth of the third, which is left one short.
C21_Witness ==
    /\ outcome = "returned"
    /\ args.questions = 20
    /\ layout.metadata.question_columns = 3
    /\ layout.metadata.question_rows = 7
    /\ Len(layout.questions) = 20
    /\ layout.questions[8].label_position.y = layout.metadata.question_area_top
    /\ layout.questions[8].label_position.x > layout.questions[7].label_position.x
    /\ layout.questions[20].label_position.x > layout.questions[8].label_position.x
    /\ layout.questions[20].label_position.y
           = layout.metadata.question_area_top - 5 * layout.metadata.question_row_height

SpacingWithinLimits ==
    /\ layout.metadata.question_column_spacing <= build_layout_settings.question_column_spacing
    /\ layout.metadata.question_column_spacing >= build_layout_settings.question_column_spacing_min

\* C22 as stated: in every returned layout the reported question column
\* spacing is at most question_column_spacing and at least
\* question_column_spacing_min, layouts of a single column included.
C22_Original ==
    outcome = "returned" => SpacingWithinLimits

\* C22 as amended: in every returned layout of two or more columns the
\* reported spacing is at most question_column_spacing and at least
\* question_column_spacing_min; in a layout of a single column it is 0.
C22_SpacingClamped ==
    outcome = "returned" =>
        IF layout.metadata.question_columns >= 2
        THEN SpacingWithinLimits
        ELSE layout.metadata.question_column_spacing = 0

\* 2 questions on LETTER under a vertical ID of 10 digits: two columns, and
\* the width left over for the gap is more than the maximum, which is the
\* spacing reported.
C22_Witness ==
    /\ outcome = "returned"
    /\ args.questions = 2
    /\ args.id_length = 10
    /\ args.paper_size = "LETTER"
    /\ args.id_orientation = "vertical"
    /\ layout.metadata.question_columns = 2
    /\ layout.metadata.question_column_spacing = build_layout_settings.question_column_spacing
    /\ (layout.metadata.content_right - layout.metadata.content_left)
           - layout.metadata.question_columns * BlockWidth
         > (layout.metadata.question_columns - 1) * build_layout_settings.question_column_spacing

\* The columns of the grid that hold a question, by the label x of the
\* questions.
PopulatedColumns == {layout.questions[n].label_position.x : n \in 1..Len(layout.questions)}

\* C28: in every returned layout for question_count in 1..50 (and id_length
\* in 4..10, as main accepts them) each of the question_columns columns of
\* the metadata holds at least one question:
\* (question_columns - 1) * question_rows < num_questions
\* <= question_columns * question_rows.
C28_EveryColumnPopulated ==
    (outcome = "returned" /\ ArgsInRange) =>
        /\ (layout.metadata.question_columns - 1) * layout.metadata.question_rows
               < layout.metadata.num_questions
        /\ layout.metadata.num_questions
               <= layout.metadata.question_columns * layout.metadata.question_rows
        /\ Cardinality(PopulatedColumns) = layout.metadata.question_columns

Apart(a, b, distance) == a - b >= distance \/ b - a >= distance
LowestIdRow(L) ==
    LET rows == {b.y : b \in StudentIdBubbles(L)}
    IN  CHOOSE y \in rows : \A z \in rows : y <= z

\* C30: in every returned layout for an accepted question_count and
\* id_length, in both ID orientations, any two distinct bubbles (question
\* options and student-ID digits together) have centres that differ by at
\* least one bubble diameter in x or in y, and the centre of every question
\* bubble lies at least section_gap below the lowest row of student-ID
\* bubble centres.  The pairs are taken row by row: two rows are a diameter
\* apart in y, two centres of one row are a diameter apart in x, and there
\* are as many centres as bubbles.
C30_NoOverlap ==
    (outcome = "returned" /\ ArgsInRange) =>
        LET centres == {<<c.x, c.y>> : c \in AllBubbles(layout)}
            diameter == layout.metadata.bubble_diameter
            rows == {c[2] : c \in centres}
        IN  /\ \A y1 \in rows : \A y2 \in rows : y1 = y2 \/ Apart(y1, y2, diameter)
            /\ \A y \in rows :
                   LET xs == {c[1] : c \in {d \in centres : d[2] = y}}
                   IN  \A x1 \in xs : \A x2 \in xs : x1 = x2 \/ Apart(x1, x2, diameter)
            /\ Cardinality(centres) = 5 * args.questions + 10 * args.id_length
            /\ \A y \in {q.y : q \in QuestionBubbles(layout)} :
                   LowestIdRow(layout) - y >= build_layout_settings.section_gap

\* 50 questions under a horizontal ID of 10 digits on A4: 350 bubbles, the
\* first question row below the tenth ID row.
C30_Witness ==
    /\ outcome = "returned"
    /\ entry = "main"
    /\ args = [questions |-> 50, id_length |-> 10, paper_size |-> "A4",
               id_orientation |-> "horizontal"]
    /\ Cardinality(AllBubbles(layout)) = 350
    /\ layout.metadata.question_columns = 3
    /\ LowestIdRow(layout) = layout.student_id[10].bubbles[1].y
    /\ layout.questions[1].bubbles[1].y < LowestIdRow(layout)

(***************************************************************************)
(* Text.  A CSV cell is a sequence of one-character strings, so that the   *)
(* tokenizers below work on characters as the Python ones do.              *)
(***************************************************************************)
UPPERCASE ==
    <<"A", "B", "C", "D", "E", "F", "G", "H", "I", "J", "K", "L", "M",
      "N", "O", "P", "Q", "R", "S", "T", "U", "V", "W", "X", "Y", "Z">>
LOWERCASE ==
    <<"a", "b", "c", "d", "e", "f", "g", "h", "i", "j", "k", "l", "m",
      "n", "o", "p", "q", "r", "s", "t", "u", "v", "w", "x", "y", "z">>

char_upper(c) ==
    IF \E i \in 1..Len(LOWERCASE) : LOWERCASE[i] = c
    THEN UPPERCASE[CHOOSE i \in 1..Len(LOWERCASE) : LOWERCASE[i] = c]
    ELSE c

char_lower(c) ==
    IF \E i \in 1..Len(UPPERCASE) : UPPERCASE[i] = c
    THEN LOWERCASE[CHOOSE i \in 1..Len(UPPERCASE) : UPPERCASE[i] = c]
    ELSE c

\* str.upper(), str.lower()
upper(s) == [i \in 1..Len(s) |-> char_upper(s[i])]
lower(s) == [i \in 1..Len(s) |-> char_lower(s[i])]

is_space(c) == c = " "

\* str.strip()
RECURSIVE lstrip(_)
lstrip(s) == IF s # <<>> /\ is_space(Head(s)) THEN lstrip(Tail(s)) ELSE s

RECURSIVE rstrip(_)
rstrip(s) ==
    IF s # <<>> /\ is_space(s[Len(s)]) THEN rstrip(SubSeq(s, 1, Len(s) - 1)) ELSE s

strip(s) == rstrip(lstrip(s))

\* str.split(sep) for a one-character separator: every part, the empty ones too.
RECURSIVE split_from(_, _, _, _)
split_from(s, i, seps, part) ==
    IF i > Len(s) THEN <<part>>
    ELSE IF s[i] \in seps THEN <<part>> \o split_from(s, i + 1, seps, <<>>)
    ELSE split_from(s, i + 1, seps, Append(part, s[i]))

split(s, sep) == split_from(s, 1, {sep}, <<>>)

\* str.replace(old, new) for one-character strings.
replace(s, old, new) == [i \in 1..Len(s) |-> IF s[i] = old THEN new ELSE s[i]]

\* sep.join(parts)
RECURSIVE join(_, _)
join(parts, sep) ==
    IF parts = <<>> THEN <<>>
    ELSE IF Len(parts) = 1 THEN parts[1]
    ELSE parts[1] \o sep \o join(Tail(parts), sep)

Range(f) == {f[i] : i \in DOMAIN f}

(***************************************************************************)
(* grade.py: the answer key and the scoring of one response row.           *)
(* Point values and scores are in hundredths of a point.                   *)
(***************************************************************************)
\* What pandas.read_csv gives for an empty cell, and str() of it.
NaN == <<"NaN">>
read_csv_cell(text) == IF text = <<>> THEN NaN ELSE text
py_str(value) == IF value = NaN THEN <<"n", "a", "n">> ELSE value
fillna(value, fill) == IF value = NaN THEN fill ELSE value

\* _tokenize_answers: the cell split on commas, the parts stripped and
\* lower-cased, the empty ones dropped.
_tokenize_answers(value) ==
    LET text == strip(py_str(value))
        parts == split(text, ",")
    IN  IF text = <<>> THEN <<>>
        ELSE LET kept == SelectSeq(parts, LAMBDA part : strip(part) # <<>>)
             IN  [i \in 1..Len(kept) |-> lower(strip(kept[i]))]

QuestionSpec(question_id, correct_options, pts) ==
    [question_id |-> question_id, correct_options |-> correct_options, points |-> pts]

is_multiple(spec) == Cardinality(spec.correct_options) > 1
num_correct(spec) == Cardinality(spec.correct_options)

KeyRaise(msg) ==
    [raised |-> TRUE, error |-> msg, question_map |-> <<>>, total_points |-> 0, order |-> <<>>]

\* load_answer_key (grade.py): the loop over the rows of the key, then the
\* check of the total.  question_map is a function on the question ids.
RECURSIVE load_answer_key_rows(_, _, _, _, _)
load_answer_key_rows(key_df, i, question_map, total_points, order) ==
    IF i > Len(key_df)
    THEN IF total_points <= 0 THEN KeyRaise("Total possible points must be positive.")
         ELSE [raised |-> FALSE, error |-> "", question_map |-> question_map,
               total_points |-> total_points, order |-> order]
    ELSE LET row == key_df[i]
             raw_question == strip(py_str(row.Question))
             question_id == upper(raw_question)
             tokens == _tokenize_answers(row.Correct_Answer)
         IN  IF raw_question = <<>> THEN KeyRaise("Answer-key row is missing a Question value.")
             ELSE IF tokens = <<>> THEN KeyRaise("Question has no valid correct answers.")
             ELSE IF row.Points < 0 THEN KeyRaise("Question has negative point value.")
             ELSE IF question_id \in DOMAIN question_map
                  THEN KeyRaise("Duplicate question in answer key.")
             ELSE load_answer_key_rows(key_df, i + 1,
                      [q \in (DOMAIN question_map) \cup {question_id} |->
                          IF q = question_id
                          THEN QuestionSpec(question_id, Range(tokens), row.Points)
                          ELSE question_map[q]],
                      total_points + row.Points,
                      Append(order, question_id))

EmptyMap == [q \in {} |-> 0]

load_answer_key(key_df) == load_answer_key_rows(key_df, 1, EmptyMap, 0, <<>>)

\* Mutant of round_eps: the quotient is cut to hundredths, not rounded.
round_truncated(num, den) == num \div den

\* round(x + 1e-12, 2) for x = num / den hundredths, num >= 0 and den a count
\* of options: a tie is lifted over the boundary, and no other such x is
\* within 1e-12 of one, so halves round up.
round_eps(num, den) == (2 * num + den) \div (2 * den)

NoExplanation == [kind |-> "none"]
ScoreRaise(msg) == [raised |-> TRUE, error |-> msg, score |-> 0, explanation |-> NoExplanation]

\* Mutant of score_multiple_select: the incorrect selections cost nothing.
score_multiple_select_no_penalty(total_points, correct_options, selected_correct, selected_incorrect) ==
    IF total_points < 0 THEN ScoreRaise("total_points cannot be negative.")
    ELSE IF correct_options <= 0
    THEN [raised |-> FALSE, error |-> "", score |-> 0,
          explanation |-> [kind |-> "Invalid question: No correct options."]]
    ELSE IF selected_correct < 0 \/ selected_incorrect < 0
    THEN ScoreRaise("Selection counts cannot be negative.")
    ELSE IF selected_correct > correct_options
    THEN ScoreRaise("selected_correct cannot exceed number of correct options.")
    ELSE LET score == round_eps(selected_correct * total_points, correct_options)
             neg == round_eps(selected_incorrect * total_points, correct_options)
         IN  [raised |-> FALSE, error |-> "", score |-> score,
              explanation |-> [kind |-> "Multiple-select", correct |-> selected_correct,
                               pos |-> score, incorrect |-> selected_incorrect, neg |-> neg,
                               total |-> score, points |-> total_points]]

score_multiple_select(total_points, correct_options, selected_correct, selected_incorrect) ==
    IF total_points < 0 THEN ScoreRaise("total_points cannot be negative.")
    ELSE IF correct_options <= 0
    THEN [raised |-> FALSE, error |-> "", score |-> 0,
          explanation |-> [kind |-> "Invalid question: No correct options."]]
    ELSE IF selected_correct < 0 \/ selected_incorrect < 0
    THEN ScoreRaise("Selection counts cannot be negative.")
    ELSE IF selected_correct > correct_options
    THEN ScoreRaise("selected_correct cannot exceed number of correct options.")
    ELSE LET raw_score_num == (selected_correct - selected_incorrect) * total_points
             score == round_eps(Max(0, raw_score_num), correct_options)
             pos == round_eps(selected_correct * total_points, correct_options)
             neg == round_eps(selected_incorrect * total_points, correct_options)
         IN  [raised |-> FALSE, error |-> "", score |-> score,
              explanation |-> [kind |-> "Multiple-select", correct |-> selected_correct,
                               pos |-> pos, incorrect |-> selected_incorrect, neg |-> neg,
                               total |-> score, points |-> total_points]]

\* Mutant of single_select_score: a selection that contains the correct option
\* is taken for the correct one.
single_select_score_contains(selected_tokens, spec) ==
    IF spec.correct_options \subseteq selected_tokens THEN spec.points ELSE 0

\* spec.points if selected_tokens == correct else 0.0
single_select_score(selected_tokens, spec) ==
    IF selected_tokens = spec.correct_options THEN spec.points ELSE 0

\* _score_row: the score and the explanation of one response row.  A point
\* value has at most two decimals, so round(score, 2) gives it back.
_score_row(row, answer_map) ==
    LET question_id == upper(strip(py_str(row.question_id)))
        spec == answer_map[question_id]
        selected_tokens == Range(_tokenize_answers(row.selected_answers))
        hits == Cardinality(selected_tokens \cap spec.correct_options)
        extras == Cardinality(selected_tokens \ spec.correct_options)
    IN  IF question_id \notin DOMAIN answer_map
        THEN ScoreRaise("Question not found in answer key.")
        ELSE IF ~is_multiple(spec)
        THEN LET score == single_select_score(selected_tokens, spec)
             IN  [raised |-> FALSE, error |-> "", score |-> score,
                  explanation |-> [kind |-> "Single-select",
                                   verdict |-> IF score # 0 THEN "correct" ELSE "incorrect",
                                   total |-> score, points |-> spec.points]]
        ELSE score_multiple_select(spec.points, num_correct(spec), hits, extras)

(***************************************************************************)
(* The cells the model draws: a set of letters written in one of the       *)
(* styles a results or key file uses.                                      *)
(***************************************************************************)
LetterOrder == <<"A", "B", "C", "D", "E", "X">>
Letters == Range(LetterOrder)
SortedLetters(S) == SelectSeq(LetterOrder, LAMBDA c : c \in S)
LetterParts(S) == [i \in 1..Len(SortedLetters(S)) |-> <<SortedLetters(S)[i]>>]

FormatCell(S, style) ==
    CASE style = "comma" -> join(LetterParts(S), <<",">>)
      [] style = "lower" -> lower(join(LetterParts(S), <<",">>))
      [] style = "lower_space" -> lower(join(LetterParts(S), <<",", " ">>))
      [] style = "upper_space" -> join(LetterParts(S), <<",", " ">>)
      [] style = "semicolon" -> join(LetterParts(S), <<";">>)
      [] style = "space" -> join(LetterParts(S), <<" ">>)
      [] style = "bracket" -> <<"[">> \o join(LetterParts(S), <<",">>) \o <<"]">>

(***************************************************************************)
(* Scoring one row: a key of two questions, Q1 drawn and Q2 fixed, and one *)
(* response row for Q1.                                                    *)
(***************************************************************************)
MaxKeyLetters == 3
MaxSelected == 4
PointValues == {0, 1, 3, 100, 400}
KeyStyles == {"lower", "upper_space"}
ResponseStyles == {"comma", "lower_space", "semicolon", "bracket"}
OptionLetters == Range(OPTIONS)

ScoreKeyCells ==
    {FormatCell(S, style) :
        S \in {T \in SUBSET OptionLetters : T # {} /\ Cardinality(T) <= MaxKeyLetters},
        style \in KeyStyles}

ScoreResponseCells ==
    {FormatCell(S, style) :
        S \in {T \in SUBSET Letters : Cardinality(T) <= MaxSelected},
        style \in ResponseStyles}

ScoreQuestionIds == {<<"Q", "1">>, <<" ", "q", "1", " ">>}

InitScore ==
    /\ ScoreOnly
    /\ \E cell \in ScoreKeyCells, pts \in PointValues :
           sr_key_df = << [Question |-> <<"Q", "1">>,
                           Correct_Answer |-> read_csv_cell(cell), Points |-> pts],
                          [Question |-> <<"Q", "2">>,
                           Correct_Answer |-> <<"a">>, Points |-> 100] >>
    /\ ~load_answer_key(sr_key_df).raised
    /\ sr_answer_map = load_answer_key(sr_key_df).question_map
    /\ \E qid \in ScoreQuestionIds, cell \in ScoreResponseCells :
           sr_row = [student_id |-> <<"S", "1">>, question_id |-> qid,
                     selected_answers |-> fillna(read_csv_cell(cell), <<>>)]
    /\ sr_scored = FALSE
    /\ sr_result = ScoreRaise("")

\* _score_row on the drawn row, with the answer map load_answer_key returned.
ScoreRow ==
    /\ ~sr_scored
    /\ sr_scored' = TRUE
    /\ sr_result' = _score_row(sr_row, sr_answer_map)
    /\ UNCHANGED <<sr_key_df, sr_answer_map, sr_row>>
    /\ UNCHANGED <<layoutVars, gradeVars, missVars, giveBackVars, keyVars, agreeVars, raceVars, tabVars, finalizeVars>>

NextScore == ScoreRow

SpecScore == InitScore /\ [][NextScore]_vars

(***************************************************************************)
(* Claims about the scoring of one row (checked under SpecScore)           *)
(***************************************************************************)
ScoredSpec == sr_answer_map[<<"Q", "1">>]
ScoredSelection == Range(_tokenize_answers(sr_row.selected_answers))
ScoredKeyIs(cell, pts) ==
    sr_key_df[1].Correct_Answer = cell /\ sr_key_df[1].Points = pts

\* C4 as stated: for a question with exactly one correct option and point
\* value P, _score_row returns P if and only if the selected tokens are
\* exactly that one-element set, and 0 for every other selection.
C4_Original ==
    (sr_scored /\ Cardinality(ScoredSpec.correct_options) = 1) =>
        /\ ~sr_result.raised
        /\ (sr_result.score = ScoredSpec.points) <=> (ScoredSelection = ScoredSpec.correct_options)
        /\ (ScoredSelection # ScoredSpec.correct_options) => sr_result.score = 0

\* C4 as amended: the same for a point value P > 0; a question worth 0 points
\* scores 0 for every selection, the correct one included.
C4_SingleSelectExact ==
    (sr_scored /\ Cardinality(ScoredSpec.correct_options) = 1) =>
        /\ ~sr_result.raised
        /\ (ScoredSelection = ScoredSpec.correct_options) => sr_result.score = ScoredSpec.points
        /\ (ScoredSelection # ScoredSpec.correct_options) => sr_result.score = 0
        /\ ScoredSpec.points > 0 =>
               ((sr_result.score = ScoredSpec.points)
                    <=> (ScoredSelection = ScoredSpec.correct_options))
        /\ (ScoredKeyIs(<<"b">>, 100) /\ sr_row.selected_answers = <<"B">>)
               => sr_result.score = 100
        /\ (ScoredKeyIs(<<"b">>, 100) /\ sr_row.selected_answers = <<"A", ",", "B">>)
               => sr_result.score = 0
        /\ (ScoredKeyIs(<<"b">>, 100) /\ sr_row.selected_answers = <<>>)
               => sr_result.score = 0

C4_Witness ==
    /\ sr_scored
    /\ ScoredKeyIs(<<"B">>, 400)
    /\ sr_row.selected_answers = <<"a", ",", " ", "b">>
    /\ ScoredSelection = {<<"a">>, <<"b">>}
    /\ sr_result.score = 0

\* C5: for a question with C >= 2 correct options and point value P, the
\* score of a selection with S_c correct and S_i incorrect options is
\* max(0, (S_c - S_i) * P / C) rounded to hundredths, halves up; with P = 4.00
\* and correct = {B,C,D}: {B,C} scores 2.67, {A,B,C,D} scores 2.67, {A} scores 0.
C5_MultiSelectFormula ==
    (sr_scored /\ Cardinality(ScoredSpec.correct_options) >= 2) =>
        LET C == Cardinality(ScoredSpec.correct_options)
            S_c == Cardinality(ScoredSelection \cap ScoredSpec.correct_options)
            S_i == Cardinality(ScoredSelection \ ScoredSpec.correct_options)
            x == Max(0, (S_c - S_i) * ScoredSpec.points)
            score == sr_result.score
        IN  /\ ~sr_result.raised
            /\ 2 * C * score <= 2 * x + C
            /\ 2 * x + C < 2 * C * score + 2 * C
            /\ (ScoredKeyIs(<<"b", ",", "c", ",", "d">>, 400)
                    /\ sr_row.selected_answers = <<"B", ",", "C">>) => score = 267
            /\ (ScoredKeyIs(<<"b", ",", "c", ",", "d">>, 400)
                    /\ sr_row.selected_answers = <<"A", ",", "B", ",", "C", ",", "D">>)
                   => score = 267
            /\ (ScoredKeyIs(<<"b", ",", "c", ",", "d">>, 400)
                    /\ sr_row.selected_answers = <<"A">>) => score = 0

\* A tie: 0.03 points over two correct options, one of them selected, is
\* 0.015 and scores 0.02.
C5_Witness ==
    /\ sr_scored
    /\ ScoredKeyIs(<<"b", ",", "c">>, 3)
    /\ sr_row.selected_answers = <<"B">>
    /\ sr_result.score = 2

\* C18: for a question with one correct option and a response that selects
\* more than one option, _score_row raises nothing (the rows after it are
\* scored), scores the row 0, and what it returns along with the score
\* records a 'multiple marks' warning for the response.
C18_MultipleMarksWarned ==
    (sr_scored /\ Cardinality(ScoredSpec.correct_options) = 1
               /\ Cardinality(ScoredSelection) > 1) =>
        /\ ~sr_result.raised
        /\ sr_result.score = 0
        /\ sr_result.explanation.kind = "multiple marks"

(***************************************************************************)
(* grade.py: grading a batch of responses (grade_responses, write_outputs, *)
(* main).                                                                  *)
(***************************************************************************)
\* The characters of the model in code-point order, for str comparison.
ASCII_ORDER ==
    <<" ", ",", "-", "0", "1", "2", "3", "4", "5", "6", "7", "8", "9", ";">>
    \o UPPERCASE \o <<"[", "]", "_">> \o LOWERCASE

ord(c) == CHOOSE i \in 1..Len(ASCII_ORDER) : ASCII_ORDER[i] = c

\* a < b for two str values
RECURSIVE str_lt(_, _)
str_lt(a, b) ==
    IF b = <<>> THEN FALSE
    ELSE IF a = <<>> THEN TRUE
    ELSE IF Head(a) = Head(b) THEN str_lt(Tail(a), Tail(b))
    ELSE ord(Head(a)) < ord(Head(b))

\* The three assignments that normalise the responses frame.
normalize_responses(responses_df) ==
    [i \in 1..Len(responses_df) |->
        [student_id |-> strip(py_str(responses_df[i].student_id)),
         question_id |-> upper(strip(py_str(responses_df[i].question_id))),
         selected_answers |-> fillna(responses_df[i].selected_answers, <<>>)]]

\* Mutant of score_rows: a row that _score_row refuses is scored 0 and the
\* loop goes on.
RECURSIVE score_rows_skipping(_, _, _, _)
score_rows_skipping(responses_df, i, answer_map, scores) ==
    IF i > Len(responses_df) THEN [raised |-> FALSE, error |-> "", scores |-> scores]
    ELSE LET r == _score_row(responses_df[i], answer_map)
         IN  score_rows_skipping(responses_df, i + 1, answer_map,
                                 Append(scores, IF r.raised THEN 0 ELSE r.score))

\* The loop over responses_df.iterrows(): the first row _score_row refuses
\* ends it with that GradingError.
RECURSIVE score_rows(_, _, _, _)
score_rows(responses_df, i, answer_map, scores) ==
    IF i > Len(responses_df) THEN [raised |-> FALSE, error |-> "", scores |-> scores]
    ELSE LET r == _score_row(responses_df[i], answer_map)
         IN  IF r.raised THEN [raised |-> TRUE, error |-> r.error, scores |-> <<>>]
             ELSE score_rows(responses_df, i + 1, answer_map, Append(scores, r.score))

\* Mutant of column_sum: the last row of the frame is left out.
RECURSIVE column_sum_short(_, _, _)
column_sum_short(scores, rows, i) ==
    IF i >= Len(scores) THEN 0
    ELSE (IF i \in rows THEN scores[i] ELSE 0) + column_sum_short(scores, rows, i + 1)

\* The sum of score_per_question over the rows of one group.
RECURSIVE column_sum(_, _, _)
column_sum(scores, rows, i) ==
    IF i > Len(scores) THEN 0
    ELSE (IF i \in rows THEN scores[i] ELSE 0) + column_sum(scores, rows, i + 1)

\* responses_df.groupby("student_id")["score_per_question"].sum(): a function
\* on the student ids of the frame.
groupby_student_sum(responses_df, scores) ==
    [s \in {responses_df[i].student_id : i \in 1..Len(responses_df)} |->
        column_sum(scores, {i \in 1..Len(responses_df) : responses_df[i].student_id = s}, 1)]

\* round(num / den, 2) in hundredths for a float quotient that is not meant
\* to sit on a boundary: the nearest hundredth, and on an exact tie either
\* neighbour, as the error of the float quotient decides.
round_outcomes(num, den) ==
    LET q == num \div den
        r == num % den
    IN  IF 2 * r < den THEN {q}
        ELSE IF 2 * r > den THEN {q + 1}
        ELSE {q, q + 1}

\* round((x / total_points) * 100, 2) for every total of the frame.
percent_grade_outcomes(totals, total_points) ==
    {f \in [DOMAIN totals -> UNION {round_outcomes(totals[s] * 10000, total_points) :
                                        s \in DOMAIN totals}] :
        \A s \in DOMAIN totals : f[s] \in round_outcomes(totals[s] * 10000, total_points)}

\* The statistics of one question: the mean of its rows' scores (0.0 when it
\* has none), rounded, and the mean as a percentage of the point value.
question_stats_outcomes(qid, spec, responses_df, scores) ==
    LET rows == {i \in 1..Len(responses_df) : responses_df[i].question_id = qid}
        n == Cardinality(rows)
        total == column_sum(scores, rows, 1)
    IN  IF n = 0 THEN {[question_id |-> qid, mean_score |-> 0, percent_correct |-> 0]}
        ELSE {[question_id |-> qid, mean_score |-> m, percent_correct |-> p] :
                 m \in round_outcomes(total, n),
                 p \in IF spec.points # 0 THEN round_outcomes(total * 10000, n * spec.points)
                       ELSE {0}}

RECURSIVE stats_outcomes(_, _, _, _, _)
stats_outcomes(question_order, i, answer_map, responses_df, scores) ==
    IF i > Len(question_order) THEN {<<>>}
    ELSE {<<first>> \o rest :
             first \in question_stats_outcomes(question_order[i], answer_map[question_order[i]],
                                               responses_df, scores),
             rest \in stats_outcomes(question_order, i + 1, answer_map, responses_df, scores)}

\* Whether row a comes after row b in the order of
\* sort_values(["student_id", "question_id"]).
sorts_after(a, b) ==
    \/ str_lt(b.student_id, a.student_id)
    \/ (a.student_id = b.student_id /\ str_lt(b.question_id, a.question_id))

\* One row put into a sorted frame, behind the rows that do not come after it.
RECURSIVE insert_sorted(_, _)
insert_sorted(frame, row) ==
    IF frame = <<>> THEN <<row>>
    ELSE IF sorts_after(Head(frame), row) THEN <<row>> \o frame
    ELSE <<Head(frame)>> \o insert_sorted(Tail(frame), row)

\* sort_values on the two columns: a stable sort.
RECURSIVE sort_values(_)
sort_values(frame) ==
    IF frame = <<>> THEN <<>>
    ELSE insert_sorted(sort_values(SubSeq(frame, 1, Len(frame) - 1)), frame[Len(frame)])

GradeRaise(msg) == [raised |-> TRUE, error |-> msg, outcomes |-> {}]

\* grade_responses: the pairs (graded_df, stats_df) it can return, or the
\* GradingError it raises.
grade_responses(responses_csv, key_df) ==
    LET key == load_answer_key(key_df)
        responses_df == normalize_responses(responses_csv)
        scored == score_rows(responses_df, 1, key.question_map, <<>>)
        totals == groupby_student_sum(responses_df, scored.scores)
        graded(percent) ==
            sort_values([i \in 1..Len(responses_df) |->
                [student_id |-> responses_df[i].student_id,
                 question_id |-> responses_df[i].question_id,
                 selected_answers |-> responses_df[i].selected_answers,
                 score_per_question |-> scored.scores[i],
                 total_score |-> totals[responses_df[i].student_id],
                 percent_grade |-> percent[responses_df[i].student_id]]])
    IN  IF key.raised THEN GradeRaise(key.error)
        ELSE IF scored.raised THEN GradeRaise(scored.error)
        ELSE [raised |-> FALSE, error |-> "",
              outcomes |->
                  {[graded_df |-> graded(percent), stats_df |-> stats] :
                      percent \in percent_grade_outcomes(totals, key.total_points),
                      stats \in stats_outcomes(key.order, 1, key.question_map,
                                               responses_df, scored.scores)}]

\* The two files of the output directory.
GRADED_CSV == "graded_report.csv"
GRADED_XLSX == "graded_report.xlsx"
NoSheet == <<>>
AbsentFile == [status |-> "absent", Grades |-> NoSheet, Question_Stats |-> NoSheet]
OldFile == [status |-> "old", Grades |-> NoSheet, Question_Stats |-> NoSheet]

\* write_outputs: the CSV holds the graded frame, the workbook the sheets
\* Grades and Question_Stats.
write_outputs(graded_df, stats_df, files) ==
    [name \in DOMAIN files |->
        IF name = GRADED_CSV
        THEN [status |-> "written", Grades |-> graded_df, Question_Stats |-> NoSheet]
        ELSE IF name = GRADED_XLSX
        THEN [status |-> "written", Grades |-> graded_df, Question_Stats |-> stats_df]
        ELSE files[name]]

\* The batches the model draws: one of two keys and up to MaxGradeRows
\* response rows of two students (one written with and without a leading
\* blank), two questions of the key and one that is not in it.
MaxGradeRows == 3
GradeKeys ==
    { << [Question |-> <<"Q", "1">>, Correct_Answer |-> <<"b", ",", "c", ",", "d">>, Points |-> 400],
         [Question |-> <<"q", "2">>, Correct_Answer |-> <<"B", ",", " ", "C">>, Points |-> p2] >> :
        p2 \in {300, 400} }
GradeStudentCells == {<<"s", "1">>, <<" ", "s", "1">>, <<"s", "0">>}
GradeQuestionCells == {<<"Q", "1">>, <<" ", "q", "2">>}
GradeAnswerCells == {<<>>, <<"B", ",", "c">>}
GradeRows ==
    [student_id : {read_csv_cell(<<"s", "1">>)},
     question_id : {read_csv_cell(c) : c \in GradeQuestionCells},
     selected_answers : {read_csv_cell(c) : c \in GradeAnswerCells}]
    \cup [student_id : {read_csv_cell(c) : c \in GradeStudentCells},
          question_id : {read_csv_cell(<<"Q", "1">>)},
          selected_answers : {read_csv_cell(c) : c \in GradeAnswerCells}]
    \cup {[student_id |-> <<"s", "1">>, question_id |-> <<"Q", "9">>,
           selected_answers |-> <<"B", ",", "c">>]}
GradeFrames == UNION {[1..n -> GradeRows] : n \in 0..MaxGradeRows}

InitGrade ==
    /\ GradeOnly
    /\ gr_key_df \in GradeKeys
    /\ gr_responses \in GradeFrames
    /\ gr_files \in {[name \in {GRADED_CSV, GRADED_XLSX} |-> f] : f \in {AbsentFile, OldFile}}
    /\ gr_outcome = "none"

\* main: grade_responses, then write_outputs; a GradingError ends the run
\* before write_outputs is reached.
GradeMain ==
    /\ gr_outcome = "none"
    /\ LET result == grade_responses(gr_responses, gr_key_df)
       IN  IF result.raised
           THEN gr_outcome' = "GradingError" /\ gr_files' = gr_files
           ELSE /\ gr_outcome' = "done"
                /\ \E out \in result.outcomes :
                       gr_files' = write_outputs(out.graded_df, out.stats_df, gr_files)
    /\ UNCHANGED <<gr_key_df, gr_responses>>
    /\ UNCHANGED <<layoutVars, scoreVars, missVars, giveBackVars, keyVars, agreeVars, raceVars, tabVars, finalizeVars>>

NextGrade == GradeMain

SpecGrade == InitGrade /\ [][NextGrade]_vars

(***************************************************************************)
(* Claims about a graded batch (checked under SpecGrade)                   *)
(***************************************************************************)
GradedRows == gr_files[GRADED_CSV].Grades
ResponseStudent(i) == strip(py_str(gr_responses[i].student_id))
ResponseQuestion(i) == upper(strip(py_str(gr_responses[i].question_id)))
KeyQuestions == {upper(strip(gr_key_df[k].Question)) : k \in 1..Len(gr_key_df)}
KeyTotal == gr_key_df[1].Points + gr_key_df[2].Points
RowsOfStudent(s) == {i \in 1..Len(gr_responses) : ResponseStudent(i) = s}

RECURSIVE SumOver(_, _)
SumOver(scores, rows) ==
    IF rows = {} THEN 0
    ELSE LET i == CHOOSE j \in rows : TRUE
         IN  scores[i] + SumOver(scores, rows \ {i})

\* C6: after a grading run every row of the report carries, as total_score,
\* the sum of the per-question scores of all the response rows of its
\* student, and as percent_grade that total divided by the sum of all the
\* point values of the key, times 100, rounded to the nearest hundredth; the
\* report has one row for each response row.
C6_TotalsAndPercent ==
    gr_outcome = "done" =>
        LET answer_map == load_answer_key(gr_key_df).question_map
            scores == [i \in 1..Len(gr_responses) |->
                          _score_row(gr_responses[i], answer_map).score]
        IN  /\ Len(GradedRows) = Len(gr_responses)
            /\ \A k \in 1..Len(GradedRows) :
                   LET row == GradedRows[k]
                   IN  /\ RowsOfStudent(row.student_id) # {}
                       /\ row.total_score = SumOver(scores, RowsOfStudent(row.student_id))
                       /\ 2 * row.percent_grade * KeyTotal - 2 * row.total_score * 10000
                              <= KeyTotal
                       /\ 2 * row.total_score * 10000 - 2 * row.percent_grade * KeyTotal
                              <= KeyTotal

\* A student with rows written two ways, one question answered twice and one
\* not at all: 2.67 + 2.67 of a key worth 7.00 is 76.29 percent.
C6_Witness ==
    /\ gr_outcome = "done"
    /\ KeyTotal = 700
    /\ Len(gr_responses) = 3
    /\ \A i \in 1..3 : ResponseQuestion(i) = <<"Q", "1">>
    /\ gr_responses[1].student_id = <<"s", "1">>
    /\ gr_responses[2].student_id = <<" ", "s", "1">>
    /\ gr_responses[3].student_id = <<"s", "0">>
    /\ \A i \in 1..3 : gr_responses[i].selected_answers = <<"B", ",", "c">>
    /\ GradedRows[2].student_id = <<"s", "1">>
    /\ GradedRows[2].total_score = 534
    /\ GradedRows[2].percent_grade = 7629

\* C7: when a response row names a question (trimmed and upper-cased) that is
\* not in the key, the run ends in GradingError and neither
\* graded_report.csv nor graded_report.xlsx is written, whatever the other
\* rows are.
C7_UnknownQuestionAborts ==
    (gr_outcome # "none" /\ \E i \in 1..Len(gr_responses) : ResponseQuestion(i) \notin KeyQuestions)
        => /\ gr_outcome = "GradingError"
           /\ \A name \in {GRADED_CSV, GRADED_XLSX} : gr_files[name].status # "written"

C7_Witness ==
    /\ gr_outcome = "GradingError"
    /\ Len(gr_responses) = 3
    /\ ResponseQuestion(1) = <<"Q", "1">>
    /\ ResponseQuestion(2) = <<"Q", "2">>
    /\ ResponseQuestion(3) = <<"Q", "9">>
    /\ gr_files[GRADED_CSV].status = "absent"
    /\ gr_files[GRADED_XLSX].status = "absent"

\* C27: after a grading run that ended without error every row of the
\* report has a total_score between 0 and the sum of the point values of the
\* key and a percent_grade between 0 and 100, also when the responses hold
\* more than one row for the same student and question.
C27_TotalsWithinKey ==
    gr_outcome = "done" =>
        \A k \in 1..Len(GradedRows) :
            /\ 0 <= GradedRows[k].total_score
            /\ GradedRows[k].total_score <= KeyTotal
            /\ 0 <= GradedRows[k].percent_grade
            /\ GradedRows[k].percent_grade <= 10000

(***************************************************************************)
(* analyze_misses.py: the responses of the students to one question        *)
(* (tokenize_options, parse_student_response, analyze_question).           *)
(***************************************************************************)
VALID_OPTIONS == {<<"A">>, <<"B">>, <<"C">>, <<"D">>, <<"E">>}
STUDENT_ID == <<"S", "t", "u", "d", "e", "n", "t", "_", "I", "D">>

\* dict.get(key, default)
dict_get(row, key, default) == IF key \in DOMAIN row THEN row[key] ELSE default

\* str(i) for an index
DIGITS == <<"0", "1", "2", "3", "4", "5", "6", "7", "8", "9">>
RECURSIVE str_int(_)
str_int(i) == IF i < 10 THEN <<DIGITS[i + 1]>> ELSE str_int(i \div 10) \o <<DIGITS[(i % 10) + 1]>>

\* sorted(tokens) as a list, for the sets of one-letter tokens of the model
RECURSIVE sorted(_)
sorted(tokens) ==
    IF tokens = {} THEN <<>>
    ELSE LET first == CHOOSE t \in tokens : \A u \in tokens : u = t \/ str_lt(t, u)
         IN  <<first>> \o sorted(tokens \ {first})

\* tokenize_options: the brackets taken off, ";" read as ",", the text split
\* on runs of commas and blanks, the parts upper-cased.
tokenize_options(value) ==
    LET text == strip(value)
        inner == IF text # <<>> /\ Head(text) = "[" /\ text[Len(text)] = "]"
                 THEN SubSeq(text, 2, Len(text) - 1) ELSE text
        parts == split_from(replace(inner, ";", ","), 1, {",", " "}, <<>>)
        kept == SelectSeq(parts, LAMBDA part : strip(part) # <<>>)
    IN  IF text = <<>> THEN <<>>
        ELSE [i \in 1..Len(kept) |-> upper(strip(kept[i]))]

NoWarning == [kind |-> "none", options |-> <<>>]

\* parse_student_response: (selected, parse_warning)
parse_student_response(raw) ==
    LET tokens == tokenize_options(raw)
        invalid == SelectSeq(tokens, LAMBDA token : token \notin VALID_OPTIONS)
    IN  IF tokens = <<>> THEN [selected |-> {}, parse_warning |-> NoWarning]
        ELSE IF invalid # <<>>
        THEN [selected |-> {},
              parse_warning |-> [kind |-> "Invalid option(s)", options |-> sorted(Range(invalid))]]
        ELSE [selected |-> Range(tokens), parse_warning |-> NoWarning]

AnswerSpec(question_label, column_name, correct_options) ==
    [question_label |-> question_label, column_name |-> column_name,
     correct_options |-> correct_options]

\* The tolerance of the comparison with the threshold, 1e-9, in units of 1e-10.
EPSILON_UNITS == 10

\* Mutant of ratio_below_threshold: a ratio equal to the threshold counts as
\* below it.
ratio_not_above_threshold(hits, total_correct, partial_threshold) ==
    hits * partial_threshold.den <= partial_threshold.num * total_correct

\* ratio + 1e-9 < partial_threshold for ratio = hits / total_correct.  A
\* threshold is num/den + offset * 1e-10 with 0 <= offset < 1000: where the
\* fractions differ they differ by far more than the tolerance and the
\* offset, where they are equal the offset decides.
ratio_below_threshold(hits, total_correct, partial_threshold) ==
    \/ hits * partial_threshold.den < partial_threshold.num * total_correct
    \/ /\ hits * partial_threshold.den = partial_threshold.num * total_correct
       /\ partial_threshold.offset > EPSILON_UNITS

\* Mutant of single_choice_missed: a selection that holds the correct option
\* is not missed.
single_choice_missed_lenient(selected, correct_options) ==
    ~(correct_options \subseteq selected)

\* A single-choice question is missed unless selected == spec.correct_options.
single_choice_missed(selected, correct_options) == selected # correct_options

\* partial_counts[hits] += 1 on a defaultdict(int)
increment(partial_counts, hits) ==
    [h \in (DOMAIN partial_counts) \cup {hits} |->
        IF h = hits THEN dict_get(partial_counts, hits, 0) + 1 ELSE partial_counts[h]]

LogEntry(spec, student_id, kind, options) ==
    [question_label |-> spec.question_label, student_id |-> student_id,
     kind |-> kind, options |-> options]

\* The body of the loop of analyze_question for the row at index idx.
analyze_row(spec, row, idx, partial_threshold, acc) ==
    LET total_correct == Cardinality(spec.correct_options)
        stripped_id == strip(dict_get(row, STUDENT_ID, <<>>))
        student_id == IF stripped_id # <<>> THEN stripped_id
                      ELSE <<"r", "o", "w", " ">> \o str_int(idx)
        parsed == parse_student_response(dict_get(row, spec.column_name, <<>>))
        selected == parsed.selected
        extra == selected \ spec.correct_options
        hits == Cardinality(selected \cap spec.correct_options)
        miss == [acc EXCEPT !.missed = @ + 1]
        logged(kind, options) ==
            [miss EXCEPT !.log_entries = Append(@, LogEntry(spec, student_id, kind, options))]
        counted == IF 0 < hits /\ hits < total_correct
                   THEN [acc EXCEPT !.partial_counts = increment(@, hits)]
                   ELSE acc
    IN  IF parsed.parse_warning # NoWarning
        THEN logged(parsed.parse_warning.kind, parsed.parse_warning.options)
        ELSE IF selected = {} THEN miss
        ELSE IF Cardinality(spec.correct_options) = 1
        THEN IF ~single_choice_missed(selected, spec.correct_options) THEN acc
             ELSE IF Cardinality(selected) > 1
             THEN logged("multiple marks for single-choice question.", <<>>)
             ELSE miss
        ELSE IF extra # {} THEN logged("selected incorrect option(s)", sorted(extra))
        ELSE IF hits = 0 THEN miss
        ELSE IF ratio_below_threshold(hits, total_correct, partial_threshold)
        THEN [counted EXCEPT !.missed = @ + 1]
        ELSE counted

RECURSIVE analyze_rows(_, _, _, _, _)
analyze_rows(spec, results, idx, partial_threshold, acc) ==
    IF idx > Len(results) THEN acc
    ELSE analyze_rows(spec, results, idx + 1, partial_threshold,
                      analyze_row(spec, results[idx], idx, partial_threshold, acc))

NoCounts == [h \in {} |-> 0]

\* analyze_question: missed, partial_counts and the log list it appended to.
analyze_question(spec, results, partial_threshold, log_entries) ==
    analyze_rows(spec, results, 1, partial_threshold,
                 [missed |-> 0, partial_counts |-> NoCounts, log_entries |-> log_entries])

\* The calls the model draws: a question with one, two or three correct
\* options, up to MaxMissRows rows of a wide results table, a threshold
\* (some a little above a ratio), and a log that is empty or holds the
\* warning of an earlier question.  A row may lack the cell of the question,
\* and its Student_ID may be blank.
MaxMissRows == 2
Q1_COLUMN == <<"Q", "1">>
MissCorrectSets == {{<<"B">>}, {<<"B">>, <<"C">>}, {<<"B">>, <<"C">>, <<"D">>}}
MissThresholds ==
    {[num |-> 1, den |-> 2, offset |-> 0], [num |-> 1, den |-> 2, offset |-> 5],
     [num |-> 2, den |-> 3, offset |-> 0], [num |-> 2, den |-> 3, offset |-> 20],
     [num |-> 1, den |-> 1, offset |-> 0]}
MissCells ==
    {FormatCell(S, "comma") : S \in {{}, {"B"}, {"C"}, {"B", "C"}, {"B", "D"}, {"X"}, {"B", "X"}}}
    \cup {FormatCell({"B", "C"}, "lower_space"), FormatCell({"B", "C", "D"}, "bracket"),
          FormatCell({"B", "C"}, "semicolon"), <<"B", "C">>}
MissRows ==
    {[k \in {STUDENT_ID, Q1_COLUMN} |-> IF k = STUDENT_ID THEN <<" ", "s", "1">> ELSE cell] :
        cell \in MissCells}
    \cup {[k \in {STUDENT_ID, Q1_COLUMN} |-> IF k = STUDENT_ID THEN <<>> ELSE cell] :
              cell \in {<<"B", ",", "C">>, <<"B", ",", "X">>}}
    \cup {[k \in {STUDENT_ID} |-> <<" ", "s", "1">>]}
MissResults == UNION {[1..n -> MissRows] : n \in 1..MaxMissRows}
PriorLogEntry ==
    [question_label |-> <<"Q", "0">>, student_id |-> <<"s", "1">>,
     kind |-> "Invalid option(s)", options |-> <<<<"X">>>>]

InitMiss ==
    /\ MissOnly
    /\ mi_args \in [spec : {AnswerSpec(Q1_COLUMN, Q1_COLUMN, correct) : correct \in MissCorrectSets},
                    results : MissResults,
                    partial_threshold : MissThresholds,
                    log_entries : {<<>>, <<PriorLogEntry>>}]
    /\ mi_log = mi_args.log_entries
    /\ mi_called = FALSE
    /\ mi_result = <<>>

\* One call of analyze_question: the tuple it returns and the log list it
\* was given, appended to in place.
AnalyzeQuestion ==
    /\ ~mi_called
    /\ mi_called' = TRUE
    /\ LET r == analyze_question(mi_args.spec, mi_args.results, mi_args.partial_threshold, mi_log)
       IN  /\ mi_result' = [missed |-> r.missed, partial_counts |-> r.partial_counts]
           /\ mi_log' = r.log_entries
    /\ UNCHANGED mi_args
    /\ UNCHANGED <<layoutVars, scoreVars, gradeVars, giveBackVars, keyVars, agreeVars, raceVars, tabVars, finalizeVars>>

NextMiss == AnalyzeQuestion

SpecMiss == InitMiss /\ [][NextMiss]_vars

(***************************************************************************)
(* Claims about analyze_question (checked under SpecMiss)                  *)
(***************************************************************************)
MissCorrect == mi_args.spec.correct_options
MissRowIndexes == 1..Len(mi_args.results)
RowCell(i) == dict_get(mi_args.results[i], mi_args.spec.column_name, <<>>)
RowTokens(i) == Range(tokenize_options(RowCell(i)))
RowInvalid(i) == \E token \in RowTokens(i) : token \notin VALID_OPTIONS
RowEmpty(i) == RowTokens(i) = {}
RowHits(i) == Cardinality(RowTokens(i) \cap MissCorrect)
RowHasExtra(i) == RowTokens(i) \ MissCorrect # {}
NewLogEntries == SubSeq(mi_log, Len(mi_args.log_entries) + 1, Len(mi_log))
MultiCorrectValidRows ==
    /\ mi_called
    /\ Cardinality(MissCorrect) >= 2
    /\ \A i \in MissRowIndexes : ~RowInvalid(i) /\ ~RowEmpty(i)

\* hits / C < threshold, and hits / C + 1e-9 < threshold
StrictlyBelow(i) ==
    LET t == mi_args.partial_threshold
    IN  \/ RowHits(i) * t.den < t.num * Cardinality(MissCorrect)
        \/ (RowHits(i) * t.den = t.num * Cardinality(MissCorrect) /\ t.offset > 0)
BelowByTolerance(i) ==
    LET t == mi_args.partial_threshold
    IN  \/ RowHits(i) * t.den < t.num * Cardinality(MissCorrect)
        \/ (RowHits(i) * t.den = t.num * Cardinality(MissCorrect) /\ t.offset > 10)

C9_InvalidEmptyAndSingle ==
    mi_called =>
        /\ mi_result.missed >= Cardinality({i \in MissRowIndexes : RowInvalid(i) \/ RowEmpty(i)})
        /\ mi_result.missed <= Len(mi_args.results)
        /\ Cardinality(MissCorrect) = 1 =>
               mi_result.missed =
                   Cardinality({i \in MissRowIndexes :
                                   RowInvalid(i) \/ RowEmpty(i) \/ RowTokens(i) # MissCorrect})
        /\ Len(mi_log) >= Len(mi_args.log_entries)
        /\ SubSeq(mi_log, 1, Len(mi_args.log_entries)) = mi_args.log_entries
        /\ Len(SelectSeq(NewLogEntries, LAMBDA e : e.kind = "Invalid option(s)"))
               = Cardinality({i \in MissRowIndexes : RowInvalid(i)})

\* An invalid response first, then the correct one: one missed, one warning
\* behind the earlier one.
C9_Witness ==
    /\ mi_called
    /\ MissCorrect = {<<"B">>}
    /\ Len(mi_args.results) = 2
    /\ RowCell(1) = <<"B", ",", "X">>
    /\ RowCell(2) = <<"B">>
    /\ mi_args.log_entries = <<PriorLogEntry>>
    /\ mi_result.missed = 1
    /\ Len(mi_log) = 2
    /\ mi_log[2].kind = "Invalid option(s)"

(***************************************************************************)
(* give_back_questions.py: reading the inputs of a give-back run and       *)
(* overwriting the responses to the questions given back                   *)
(* (parse_question_list, load_results, load_answer_key,                    *)
(* ensure_questions_exist, apply_give_backs).                              *)
(***************************************************************************)
AdjustmentRaise(msg) == [raised |-> TRUE, error |-> msg, value |-> <<>>]
Returned(value) == [raised |-> FALSE, error |-> "", value |-> value]

\* The loop of parse_question_list: blank items dropped, the rest
\* upper-cased, a repeated id kept once, in the order of first appearance.
RECURSIVE clean_question_list(_, _, _)
clean_question_list(tokens, i, cleaned) ==
    IF i > Len(tokens) THEN cleaned
    ELSE LET qid == upper(tokens[i])
         IN  IF tokens[i] = <<>> \/ qid \in Range(cleaned)
             THEN clean_question_list(tokens, i + 1, cleaned)
             ELSE clean_question_list(tokens, i + 1, Append(cleaned, qid))

parse_question_list(raw) ==
    LET items == split(raw, ",")
        tokens == [i \in 1..Len(items) |-> strip(items[i])]
        cleaned == clean_question_list(tokens, 1, <<>>)
    IN  IF cleaned = <<>>
        THEN AdjustmentRaise("No valid question IDs were supplied via --give-back.")
        ELSE Returned(cleaned)

\* load_results: the frame of the results CSV with its three columns
\* normalised.
load_results(results_csv) ==
    [i \in 1..Len(results_csv) |->
        [student_id |-> strip(py_str(results_csv[i].student_id)),
         question_id |-> upper(strip(py_str(results_csv[i].question_id))),
         selected_answers |-> py_str(fillna(results_csv[i].selected_answers, <<>>))]]

\* load_answer_key (give_back_questions.py): the frame of the answer-key CSV,
\* Question normalised and Correct_Answer as text; a Question that occurs
\* twice is refused.
gb_load_answer_key(key_csv) ==
    LET df == [i \in 1..Len(key_csv) |->
                  [Question |-> upper(strip(py_str(key_csv[i].Question))),
                   Correct_Answer |-> py_str(fillna(key_csv[i].Correct_Answer, <<>>)),
                   Points |-> key_csv[i].Points]]
    IN  IF \E i, j \in 1..Len(df) : i # j /\ df[i].Question = df[j].Question
        THEN AdjustmentRaise("Answer-key CSV contains duplicate Question entries")
        ELSE Returned(df)

\* ensure_questions_exist without its check.
ensure_questions_exist_skipped(question_ids, answer_key) == FALSE

\* ensure_questions_exist: TRUE when it raises AdjustmentError.
ensure_questions_exist_raises(question_ids, answer_key) ==
    \E i \in 1..Len(question_ids) :
        question_ids[i] \notin {answer_key[k].Question : k \in 1..Len(answer_key)}

\* dict(zip(answer_key["Question"], answer_key["Correct_Answer"])): of two
\* rows with one Question the later one stays.
answer_lookup_of(answer_key) ==
    [q \in {answer_key[k].Question : k \in 1..Len(answer_key)} |->
        LET last == CHOOSE k \in 1..Len(answer_key) :
                        /\ answer_key[k].Question = q
                        /\ \A j \in 1..Len(answer_key) : answer_key[j].Question = q => j <= k
        IN  answer_key[last].Correct_Answer]

\* Mutant of give_back_value: the correct answer is written in a normalised
\* form, not as the key has it.
give_back_value_normalised(answer_lookup, qid) == upper(strip(answer_lookup[qid]))

\* The value assigned to the rows of qid: answer_lookup[qid].
give_back_value(answer_lookup, qid) == answer_lookup[qid]

AdjustmentRecord(question_id, row_count, student_count) ==
    [question_id |-> question_id, row_count |-> row_count, student_count |-> student_count]

\* Mutant of nunique: the rows are counted, not the students.
nunique_rows(results_df, mask) == Cardinality(mask)

\* results_df.loc[mask, "student_id"].nunique()
nunique(results_df, mask) == Cardinality({results_df[r].student_id : r \in mask})

\* The loop of apply_give_backs over question_ids, from index i on.  The
\* frame is changed in place, so a KeyError leaves the changes made so far.
RECURSIVE apply_give_backs_from(_, _, _, _, _)
apply_give_backs_from(results_df, answer_lookup, question_ids, i, records) ==
    IF i > Len(question_ids)
    THEN [raised |-> FALSE, error |-> "", results_df |-> results_df, records |-> records]
    ELSE LET qid == question_ids[i]
             mask == {r \in 1..Len(results_df) : results_df[r].question_id = qid}
             row_count == Cardinality(mask)
             student_count == nunique(results_df, mask)
         IN  IF row_count > 0 /\ qid \notin DOMAIN answer_lookup
             THEN [raised |-> TRUE, error |-> "KeyError", results_df |-> results_df,
                   records |-> records]
             ELSE apply_give_backs_from(
                      IF row_count > 0
                      THEN [r \in 1..Len(results_df) |->
                               IF r \in mask
                               THEN [results_df[r] EXCEPT
                                        !.selected_answers = give_back_value(answer_lookup, qid)]
                               ELSE results_df[r]]
                      ELSE results_df,
                      answer_lookup, question_ids, i + 1,
                      Append(records, AdjustmentRecord(qid, row_count, student_count)))

apply_give_backs(results_df, answer_key, question_ids) ==
    apply_give_backs_from(results_df, answer_lookup_of(answer_key), question_ids, 1, <<>>)

\* The characters re.fullmatch(r"[A-Za-z0-9_-]+", text) lets through.
VERSION_CHARACTERS == Range(UPPERCASE) \cup Range(LOWERCASE) \cup Range(DIGITS) \cup {"_", "-"}

normalize_version(version) ==
    LET text == strip(version)
    IN  IF text = <<>> THEN AdjustmentRaise("Version label cannot be blank.")
        ELSE IF \E i \in 1..Len(text) : text[i] \notin VERSION_CHARACTERS
        THEN AdjustmentRaise("Version label may only contain letters, numbers, underscores, or hyphens.")
        ELSE Returned(text)

\* The files of a run, named by what follows the version label (the log
\* file by its role), and the three that ensure_outputs_available looks at.
ADJUSTED_RESULTS == "_results.csv"
FINAL_CSV == "_graded_report.csv"
FINAL_XLSX == "_graded_report.xlsx"
LOG_FILE == "log"
OUTPUT_PATHS == <<ADJUSTED_RESULTS, FINAL_CSV, FINAL_XLSX>>
RunFiles == {ADJUSTED_RESULTS, FINAL_CSV, FINAL_XLSX, LOG_FILE}

\* path.exists()
exists(files, path) == files[path].status # "absent"

\* Mutant of ensure_outputs_available_raises: only the first path is looked at.
ensure_first_output_available_raises(paths, files) == exists(files, paths[1])

\* Mutant of ensure_outputs_available_raises: no path is looked at.
ensure_outputs_available_never_raises(paths, files) == FALSE

\* ensure_outputs_available: TRUE when it raises AdjustmentError.
ensure_outputs_available_raises(paths, files) ==
    \E i \in 1..Len(paths) : exists(files, paths[i])

WrittenFile(content) == [status |-> "written", content |-> content]

\* results_df.to_csv(path, index=False): the cells of the frame as text.
to_csv(results_df) ==
    [i \in 1..Len(results_df) |->
        [student_id |-> py_str(results_df[i].student_id),
         question_id |-> py_str(results_df[i].question_id),
         selected_answers |-> py_str(results_df[i].selected_answers)]]

\* pd.read_csv of a file of such rows: an empty cell comes back as NaN.
read_csv(rows) ==
    [i \in 1..Len(rows) |->
        [student_id |-> read_csv_cell(rows[i].student_id),
         question_id |-> read_csv_cell(rows[i].question_id),
         selected_answers |-> read_csv_cell(rows[i].selected_answers)]]

\* run_grade_pipeline: grade.py run on the adjusted results and the key in a
\* temporary directory; its two reports are then moved to their final names.
\* A failing grade.py is an AdjustmentError, and the temporary directory is
\* removed either way.  The value is the set of file states it can leave.
run_grade_pipeline(files, key_csv) ==
    LET result == grade_responses(read_csv(files[ADJUSTED_RESULTS].content), key_csv)
    IN  IF result.raised THEN AdjustmentRaise("grade.py failed")
        ELSE Returned({[files EXCEPT
                           ![FINAL_CSV] = WrittenFile(out.graded_df),
                           ![FINAL_XLSX] = WrittenFile(<<out.graded_df, out.stats_df>>)] :
                       out \in result.outcomes})

\* format_record: the line of one record, in its parts.
format_record(record) ==
    IF record.row_count = 0
    THEN [question_id |-> record.question_id, text |-> "no matching responses found.",
          student_count |-> 0, suffix |-> "", row_count |-> 0]
    ELSE [question_id |-> record.question_id, text |-> "updated",
          student_count |-> record.student_count,
          suffix |-> IF record.student_count = 1 THEN "student" ELSE "students",
          row_count |-> record.row_count]

\* summary_lines of main: the version and one line for each record (the
\* lines that name paths are left out).
summary_lines(version, records) ==
    <<[question_id |-> version, text |-> "Version", student_count |-> 0, suffix |-> "",
       row_count |-> 0]>>
    \o [i \in 1..Len(records) |-> format_record(records[i])]

\* The runs the model draws: a results CSV of up to MaxGiveBackRows rows, an
\* answer key of three questions (or one that names a question twice), and
\* a --give-back list.
MaxGiveBackRows == 3
GiveBackResultRows ==
    [student_id : {<<"s", "1">>},
     question_id : {<<"Q", "1">>, <<" ", "q", "2">>},
     selected_answers : {NaN, <<"A">>}]
    \cup {[student_id |-> <<"s", "1">>, question_id |-> <<"Q", "3">>,
           selected_answers |-> <<"A">>],
          [student_id |-> <<" ", "s", "2">>, question_id |-> <<"Q", "1">>,
           selected_answers |-> <<"A">>],
          [student_id |-> <<" ", "s", "2">>, question_id |-> <<" ", "q", "2">>,
           selected_answers |-> NaN]}
GiveBackResults == UNION {[1..n -> GiveBackResultRows] : n \in 0..MaxGiveBackRows}
GiveBackKeyRow(question, answer) ==
    [Question |-> question, Correct_Answer |-> read_csv_cell(answer), Points |-> 100]
GiveBackKeys ==
    { <<GiveBackKeyRow(<<"Q", "1">>, <<"A">>),
        GiveBackKeyRow(<<"q", "2", " ">>, <<" ", "b", ",", " ", "c">>),
        GiveBackKeyRow(<<"Q", "3">>, <<>>)>>,
      <<GiveBackKeyRow(<<"Q", "1">>, <<"[", "B", ";", "C", "]">>),
        GiveBackKeyRow(<<"Q", "2">>, <<"a">>)>>,
      <<GiveBackKeyRow(<<"Q", "1">>, <<"A">>),
        GiveBackKeyRow(<<"q", "1">>, <<"B">>)>> }
GiveBackLists ==
    {<<"Q", "1">>, <<"q", "2", ",", " ", "Q", "1", ",", "Q", "2">>, <<"Q", "3">>, <<" ", ",">>}
GiveBackKeysGraded ==
    GiveBackKeys \cup
    { <<GiveBackKeyRow(<<"Q", "1">>, <<"A">>),
        GiveBackKeyRow(<<"q", "2", " ">>, <<" ", "b", ",", " ", "c">>),
        GiveBackKeyRow(<<"Q", "3">>, <<"E">>)>> }

\* The version label, whether --log is given, and the files of the output
\* directory that are there when the run starts.
GiveBackUsual == [version |-> <<"v", "2">>, log |-> TRUE, existing |-> {}]
GiveBackEnvironments ==
    {GiveBackUsual,
     [version |-> <<" ", "v", "2">>, log |-> FALSE, existing |-> {}],
     [version |-> <<"v", "2">>, log |-> TRUE, existing |-> {ADJUSTED_RESULTS}],
     [version |-> <<"v", "2">>, log |-> FALSE, existing |-> {FINAL_CSV}],
     [version |-> <<"v", "2">>, log |-> TRUE, existing |-> {FINAL_XLSX}],
     [version |-> <<"v", "2">>, log |-> TRUE, existing |-> {LOG_FILE}],
     [version |-> <<"v", ".", "2">>, log |-> TRUE, existing |-> {}],
     [version |-> <<" ">>, log |-> FALSE, existing |-> {}]}

GiveBackArgs(results, key, give_back, environment) ==
    [results |-> results, key |-> key, give_back |-> give_back,
     version |-> environment.version, log |-> environment.log,
     existing |-> environment.existing]

\* Every frame in the usual environment, and the frames of at most one row in
\* every environment.
EnvironmentResults(environment) ==
    IF environment = GiveBackUsual
    THEN GiveBackResults
    ELSE {r \in GiveBackResults : Len(r) <= 1}

AbsentOutput == [status |-> "absent", content |-> <<>>]
OldOutput == [status |-> "old", content |-> <<>>]

InitGiveBack ==
    /\ GiveBackOnly
    /\ \E environment \in GiveBackEnvironments :
         \E results \in EnvironmentResults(environment), key \in GiveBackKeysGraded,
            give_back \in GiveBackLists :
             gb_args = GiveBackArgs(results, key, give_back, environment)
    /\ gb_pc = "start"
    /\ gb_files = [path \in RunFiles |->
                      IF path \in gb_args.existing THEN OldOutput ELSE AbsentOutput]
    /\ gb_question_ids = <<>>
    /\ gb_results_df = <<>>
    /\ gb_answer_key = <<>>
    /\ gb_records = <<>>

\* main up to the call of apply_give_backs: normalize_version,
\* parse_question_list, ensure_outputs_available, load_results,
\* load_answer_key, ensure_questions_exist.  An AdjustmentError of any of
\* them ends the run; none of them writes a file.
LoadInputs ==
    /\ gb_pc = "start"
    /\ LET version == normalize_version(gb_args.version)
           ids == parse_question_list(gb_args.give_back)
           key == gb_load_answer_key(gb_args.key)
       IN  IF \/ version.raised
              \/ ids.raised
              \/ ensure_outputs_available_raises(OUTPUT_PATHS, gb_files)
              \/ key.raised
           THEN /\ gb_pc' = "AdjustmentError"
                /\ UNCHANGED <<gb_question_ids, gb_results_df, gb_answer_key>>
           ELSE IF ensure_questions_exist_raises(ids.value, key.value)
           THEN /\ gb_pc' = "AdjustmentError"
                /\ gb_question_ids' = ids.value
                /\ gb_results_df' = load_results(gb_args.results)
                /\ gb_answer_key' = key.value
           ELSE /\ gb_pc' = "loaded"
                /\ gb_question_ids' = ids.value
                /\ gb_results_df' = load_results(gb_args.results)
                /\ gb_answer_key' = key.value
    /\ UNCHANGED <<gb_args, gb_files, gb_records>>
    /\ UNCHANGED <<layoutVars, scoreVars, gradeVars, missVars, keyVars, agreeVars, raceVars, tabVars, finalizeVars>>

\* records = apply_give_backs(results_df, answer_key_df, question_ids)
ApplyGiveBacks ==
    /\ gb_pc = "loaded"
    /\ LET r == apply_give_backs(gb_results_df, gb_answer_key, gb_question_ids)
       IN  /\ gb_results_df' = r.results_df
           /\ gb_records' = r.records
           /\ gb_pc' = IF r.raised THEN "KeyError" ELSE "applied"
    /\ UNCHANGED <<gb_args, gb_files, gb_question_ids, gb_answer_key>>
    /\ UNCHANGED <<layoutVars, scoreVars, gradeVars, missVars, keyVars, agreeVars, raceVars, tabVars, finalizeVars>>

\* results_df.to_csv(adjusted_results_path, index=False)
SaveAdjustedResults ==
    /\ gb_pc = "applied"
    /\ gb_files' = [gb_files EXCEPT ![ADJUSTED_RESULTS] = WrittenFile(to_csv(gb_results_df))]
    /\ gb_pc' = "saved"
    /\ UNCHANGED <<gb_args, gb_question_ids, gb_results_df, gb_answer_key, gb_records>>
    /\ UNCHANGED <<layoutVars, scoreVars, gradeVars, missVars, keyVars, agreeVars, raceVars, tabVars, finalizeVars>>

\* run_grade_pipeline(adjusted_results_path, answer_key_path, final_csv_path,
\* final_xlsx_path): its AdjustmentError ends the run.
RunGradePipeline ==
    /\ gb_pc = "saved"
    /\ LET r == run_grade_pipeline(gb_files, gb_args.key)
       IN  IF r.raised
           THEN gb_pc' = "AdjustmentError" /\ gb_files' = gb_files
           ELSE gb_pc' = "graded" /\ gb_files' \in r.value
    /\ UNCHANGED <<gb_args, gb_question_ids, gb_results_df, gb_answer_key, gb_records>>
    /\ UNCHANGED <<layoutVars, scoreVars, gradeVars, missVars, keyVars, agreeVars, raceVars, tabVars, finalizeVars>>

\* The end of main: the summary is printed, and written to the log file when
\* --log is given.
WriteSummary ==
    /\ gb_pc = "graded"
    /\ gb_files' = IF gb_args.log
                   THEN [gb_files EXCEPT
                            ![LOG_FILE] = WrittenFile(summary_lines(strip(gb_args.version),
                                                                    gb_records))]
                   ELSE gb_files
    /\ gb_pc' = "done"
    /\ UNCHANGED <<gb_args, gb_question_ids, gb_results_df, gb_answer_key, gb_records>>
    /\ UNCHANGED <<layoutVars, scoreVars, gradeVars, missVars, keyVars, agreeVars, raceVars, tabVars, finalizeVars>>

NextGiveBack ==
    LoadInputs \/ ApplyGiveBacks \/ SaveAdjustedResults \/ RunGradePipeline \/ WriteSummary

SpecGiveBack == InitGiveBack /\ [][NextGiveBack]_vars

(***************************************************************************)
(* Claims about apply_give_backs (checked under SpecGiveBack)              *)
(***************************************************************************)
LoadedResults == load_results(gb_args.results)
RequestedQuestions == Range(gb_question_ids)
\* The Correct_Answer cell of the key for question q, as the file has it.
KeyCorrectAnswer(q) ==
    LET k == CHOOSE j \in 1..Len(gb_args.key) : upper(strip(gb_args.key[j].Question)) = q
    IN  IF gb_args.key[k].Correct_Answer = NaN THEN <<>> ELSE gb_args.key[k].Correct_Answer

\* C10: after apply_give_backs every row whose question_id is one of the
\* requested ids holds the key's Correct_Answer string of that question,
\* verbatim, whatever it held before; every other row keeps its
\* selected_answers; every row keeps its student_id and question_id; the
\* frame has the same rows in the same order.
C10_GiveBackOverwrites ==
    gb_pc = "applied" =>
        /\ Len(gb_results_df) = Len(LoadedResults)
        /\ \A i \in 1..Len(LoadedResults) :
               /\ gb_results_df[i].student_id = LoadedResults[i].student_id
               /\ gb_results_df[i].question_id = LoadedResults[i].question_id
               /\ LoadedResults[i].question_id \in RequestedQuestions
                      => gb_results_df[i].selected_answers
                             = KeyCorrectAnswer(LoadedResults[i].question_id)
               /\ LoadedResults[i].question_id \notin RequestedQuestions
                      => gb_results_df[i].selected_answers = LoadedResults[i].selected_answers

\* Q2 and Q1 given back: the row of Q2 gets " b, c" as the key has it, the
\* row of Q1 gets "A" in place of nothing, the row of Q3 stays.
C10_Witness ==
    /\ gb_pc = "applied"
    /\ gb_question_ids = << <<"Q", "2">>, <<"Q", "1">> >>
    /\ Len(gb_results_df) = 3
    /\ gb_args.results[1].selected_answers = <<"A">>
    /\ gb_results_df[1].question_id = <<"Q", "2">>
    /\ gb_results_df[1].selected_answers = <<" ", "b", ",", " ", "c">>
    /\ gb_args.results[2].selected_answers = NaN
    /\ gb_results_df[2].question_id = <<"Q", "1">>
    /\ gb_results_df[2].selected_answers = <<"A">>
    /\ gb_results_df[3].question_id = <<"Q", "3">>
    /\ gb_results_df[3].selected_answers = <<"A">>

(***************************************************************************)
(* Claims about a give-back run (checked under SpecGiveBack)               *)
(***************************************************************************)
\* The requested ids and the key's questions, as main reads them from its
\* arguments.
RequestedIds == Range(parse_question_list(gb_args.give_back).value)
KeyIds == {upper(strip(py_str(gb_args.key[k].Question))) : k \in 1..Len(gb_args.key)}
SomeRequestedIdAbsent == \E q \in RequestedIds : q \notin KeyIds
FileAtStart(path) == IF path \in gb_args.existing THEN OldOutput ELSE AbsentOutput

\* C11: in a give-back run where a requested question id is absent from the
\* answer key, the run gets no further than its AdjustmentError, and none of
\* <version>_results.csv, <version>_graded_report.csv, .xlsx and the log is
\* created or written.
C11_AbsentQuestionFailsBeforeFiles ==
    SomeRequestedIdAbsent =>
        /\ gb_pc \in {"start", "AdjustmentError"}
        /\ \A path \in RunFiles : gb_files[path] = FileAtStart(path)

\* Q3 requested of the key that has Q1 and Q2 only, nothing else wrong: the
\* run has ended at ensure_questions_exist.
C11_Witness ==
    /\ gb_pc = "AdjustmentError"
    /\ SomeRequestedIdAbsent
    /\ gb_question_ids = << <<"Q", "3">> >>
    /\ Len(gb_answer_key) = 2
    /\ Len(gb_results_df) = 3
    /\ gb_args.log
    /\ \A path \in RunFiles : gb_files[path].status = "absent"

\* C12: when one of <version>_results.csv, <version>_graded_report.csv and
\* <version>_graded_report.xlsx exists as the run starts, the run gets no
\* further than its AdjustmentError and each of the three is as it was.
C12_NoOverwrite ==
    (\E path \in Range(OUTPUT_PATHS) : path \in gb_args.existing) =>
        /\ gb_pc \in {"start", "AdjustmentError"}
        /\ \A path \in Range(OUTPUT_PATHS) : gb_files[path] = FileAtStart(path)

\* The graded CSV of the version exists, all else is in order (the question
\* given back is in the key, there is a row to change): the run has ended.
C12_Witness ==
    /\ gb_pc = "AdjustmentError"
    /\ gb_args.existing = {FINAL_CSV}
    /\ ~SomeRequestedIdAbsent
    /\ RequestedIds # {}
    /\ ~gb_load_answer_key(gb_args.key).raised
    /\ Len(gb_args.results) = 1
    /\ gb_files[FINAL_CSV].status = "old"
    /\ gb_files[ADJUSTED_RESULTS].status = "absent"

\* The graded report of the run, the one grade.py makes of the results as
\* they were before the give-back, and the key's Points of question q.
GradedAfter == gb_files[FINAL_CSV].content
GradedBefore ==
    LET before == grade_responses(gb_args.results, gb_args.key)
    IN  IF before.raised THEN <<>> ELSE (CHOOSE out \in before.outcomes : TRUE).graded_df
KeyPoints(q) ==
    LET k == CHOOSE j \in 1..Len(gb_args.key) : upper(strip(gb_args.key[j].Question)) = q
    IN  gb_args.key[k].Points
Rescored == gb_pc \in {"graded", "done"}

\* C13: after the give-back and the re-scoring, the graded report has the
\* rows of the report made without the give-back, student by student and
\* question by question; every student's row of a question given back is
\* scored the full Points of that question, and every other row is scored as
\* it was before.
C13_RowsOfGivenBackQuestionFull ==
    Rescored =>
        /\ Len(GradedAfter) = Len(GradedBefore)
        /\ Len(GradedAfter) = Len(gb_args.results)
        /\ \A i \in 1..Len(GradedAfter) :
               /\ GradedAfter[i].student_id = GradedBefore[i].student_id
               /\ GradedAfter[i].question_id = GradedBefore[i].question_id
               /\ GradedAfter[i].question_id \in RequestedIds
                      => GradedAfter[i].score_per_question
                             = KeyPoints(GradedAfter[i].question_id)
               /\ GradedAfter[i].question_id \notin RequestedIds
                      => GradedAfter[i].score_per_question
                             = GradedBefore[i].score_per_question

\* The rows of the loaded results frame that have question id qid.
RowsOfQuestion(qid) == {r \in 1..Len(LoadedResults) : LoadedResults[r].question_id = qid}
LogLines == gb_files[LOG_FILE].content

\* C19: apply_give_backs, called by main, returns one record for each
\* requested question id, in the order of the request; its row_count is the
\* number of rows of the results with that question_id and its student_count
\* the number of distinct student_id values of those rows; a question without
\* rows gets a record with 0 and 0, the call raises nothing, and the log
\* reports that record as "no matching responses found.".
C19_OneRecordPerQuestion ==
    /\ gb_pc # "KeyError"
    /\ gb_pc \in {"applied", "saved", "graded", "done"} =>
           /\ Len(gb_records) = Len(gb_question_ids)
           /\ \A i \in 1..Len(gb_records) :
                  /\ gb_records[i].question_id = gb_question_ids[i]
                  /\ gb_records[i].row_count = Cardinality(RowsOfQuestion(gb_question_ids[i]))
                  /\ gb_records[i].student_count
                         = Cardinality({LoadedResults[r].student_id :
                                           r \in RowsOfQuestion(gb_question_ids[i])})
    /\ (gb_pc = "done" /\ gb_args.log) =>
           /\ Len(LogLines) = Len(gb_records) + 1
           /\ \A i \in 1..Len(gb_records) :
                  /\ LogLines[i + 1].question_id = gb_records[i].question_id
                  /\ (LogLines[i + 1].text = "no matching responses found.")
                         <=> (RowsOfQuestion(gb_records[i].question_id) = {})

\* Q2 and Q1 requested of results with two rows of one student for Q1 and a
\* row for Q3: no row for Q2 (0 rows, 0 students), 2 rows of 1 student for Q1.
C19_Witness ==
    /\ gb_pc = "applied"
    /\ Len(gb_results_df) = 3
    /\ gb_records = <<AdjustmentRecord(<<"Q", "2">>, 0, 0), AdjustmentRecord(<<"Q", "1">>, 2, 1)>>

\* C14: a give-back run that has failed, at whatever step, has left none of
\* <version>_results.csv, <version>_graded_report.csv and
\* <version>_graded_report.xlsx behind as its product.
C14_NoPartialArtifacts ==
    gb_pc \in {"AdjustmentError", "KeyError"} =>
        \A path \in Range(OUTPUT_PATHS) : gb_files[path].status # "written"

(***************************************************************************)
(* The answer-key CSV: written by write_answer_key                         *)
(* (generate_test_from_qti.py), read by load_answer_key of grade.py, of    *)
(* analyze_misses.py and of give_back_questions.py.  A cell of the file is *)
(* its text; the points of a Question are in thousandths of a point.       *)
(***************************************************************************)
Question(number, correct_letters, pts) ==
    [number |-> number, correct_letters |-> correct_letters, points |-> pts]

two_digits(n) == <<DIGITS[(n \div 10) + 1], DIGITS[(n % 10) + 1]>>

\* f"{points:.2f}": the nearest hundredth with its sign; a value half way
\* between two hundredths goes to either, as its float decides.
format_points(pts) ==
    LET magnitude == IF pts < 0 THEN 0 - pts ELSE pts
        sign == IF pts < 0 THEN <<"-">> ELSE <<>>
    IN  {sign \o str_int(h \div 100) \o <<".">> \o two_digits(h % 100) :
            h \in round_outcomes(magnitude, 10)}

KeyRow(question, answer, pts) == [Question |-> question, Correct_Answer |-> answer, Points |-> pts]

\* write_answer_key: one row for each question, after the header.  The value
\* is the set of files it can write.
RECURSIVE write_answer_key_rows(_, _, _)
write_answer_key_rows(questions, i, rows) ==
    IF i > Len(questions) THEN {rows}
    ELSE LET question == questions[i]
             correct_value == join(question.correct_letters, <<",">>)
         IN  UNION {write_answer_key_rows(questions, i + 1,
                        Append(rows, KeyRow(<<"Q">> \o str_int(question.number),
                                            correct_value, text))) :
                    text \in format_points(question.points)}

write_answer_key(questions) == write_answer_key_rows(questions, 1, <<>>)

\* int(text) for a text of digits
RECURSIVE int_of(_)
int_of(text) ==
    IF text = <<>> THEN 0
    ELSE LET digit == CHOOSE d \in 1..Len(DIGITS) : DIGITS[d] = text[Len(text)]
         IN  10 * int_of(SubSeq(text, 1, Len(text) - 1)) + (digit - 1)

\* float(text) of a Points cell written with two decimals, in hundredths.
to_float(text) ==
    LET negative == text # <<>> /\ Head(text) = "-"
        body == IF negative THEN Tail(text) ELSE text
        parts == split(body, ".")
        hundredths == 100 * int_of(parts[1]) + int_of(parts[2])
    IN  IF negative THEN 0 - hundredths ELSE hundredths

\* pandas.read_csv of the key file: an empty cell is NaN, Points a float.
pd_read_key(file) ==
    [i \in 1..Len(file) |->
        [Question |-> read_csv_cell(file[i].Question),
         Correct_Answer |-> read_csv_cell(file[i].Correct_Answer),
         Points |-> to_float(file[i].Points)]]

ValueRaise(msg) == [raised |-> TRUE, error |-> msg, value |-> <<>>]

\* read_csv_rows (analyze_misses.py): every cell stripped, a row without any
\* text left out, and a file without rows refused.
read_csv_rows(file) ==
    LET cleaned == [i \in 1..Len(file) |->
                       [Question |-> strip(file[i].Question),
                        Correct_Answer |-> strip(file[i].Correct_Answer),
                        Points |-> strip(file[i].Points)]]
        rows == SelectSeq(cleaned, LAMBDA row :
                    row.Question # <<>> \/ row.Correct_Answer # <<>> \/ row.Points # <<>>)
    IN  IF rows = <<>> THEN ValueRaise("has no data rows.") ELSE Returned(rows)

\* build_column_lookup: {name.lower(): name}, a later name first in place of
\* an earlier one.
build_column_lookup(fieldnames) ==
    [name \in {lower(fieldnames[i]) : i \in 1..Len(fieldnames)} |->
        LET last == CHOOSE i \in 1..Len(fieldnames) :
                        /\ lower(fieldnames[i]) = name
                        /\ \A j \in 1..Len(fieldnames) : lower(fieldnames[j]) = name => j <= i
        IN  fieldnames[last]]

\* resolve_question_column: the display label "Q<suffix>", and the columns
\* the loop over the set of candidates can return (the first that is found,
\* in the order the set happens to have).
resolve_question_column(label, column_lookup) ==
    LET raw == strip(label)
        starts_with_q == raw # <<>> /\ lower(<<Head(raw)>>) = <<"q">>
        suffix == IF starts_with_q THEN strip(Tail(raw)) ELSE raw
        display == <<"Q">> \o (IF suffix # <<>> THEN suffix ELSE raw)
        candidates == {raw, lower(raw), upper(raw), suffix, lower(suffix), upper(suffix),
                       display, lower(display), upper(display)}
        found == {column_lookup[lower(candidate)] :
                     candidate \in {c \in candidates : c # <<>> /\ lower(c) \in DOMAIN column_lookup}}
    IN  IF raw = <<>>
        THEN [raised |-> TRUE, error |-> "Encountered a blank question label in the answer key.",
              display |-> <<>>, columns |-> {}]
        ELSE IF found = {}
        THEN [raised |-> TRUE, error |-> "Question not found in results CSV columns",
              display |-> display, columns |-> {}]
        ELSE [raised |-> FALSE, error |-> "", display |-> display, columns |-> found]

\* parse_answer_value: the set of the tokens, all of them valid options.
parse_answer_value(value) ==
    LET tokens == tokenize_options(value)
    IN  IF tokens = <<>> THEN ValueRaise("Answer entry is empty.")
        ELSE IF \E i \in 1..Len(tokens) : tokens[i] \notin VALID_OPTIONS
        THEN ValueRaise("Answer contains invalid option(s)")
        ELSE Returned(Range(tokens))

\* The loop of load_answer_key (analyze_misses.py) from row i on: the set of
\* the results it can have.
RECURSIVE miss_load_answer_key_rows(_, _, _, _, _)
miss_load_answer_key_rows(rows, i, column_lookup, specs, seen_questions) ==
    IF i > Len(rows) THEN {Returned(specs)}
    ELSE LET question_label == strip(rows[i].Question)
             answer_value == strip(rows[i].Correct_Answer)
             resolved == resolve_question_column(question_label, column_lookup)
             correct_set == parse_answer_value(answer_value)
         IN  IF question_label = <<>> \/ answer_value = <<>>
             THEN {ValueRaise("Each answer-key row must include Question and Correct_Answer values.")}
             ELSE IF resolved.raised THEN {ValueRaise(resolved.error)}
             ELSE IF resolved.display \in seen_questions
             THEN {ValueRaise("Duplicate question in answer key.")}
             ELSE IF correct_set.raised THEN {ValueRaise(correct_set.error)}
             ELSE UNION {miss_load_answer_key_rows(rows, i + 1, column_lookup,
                             Append(specs, AnswerSpec(resolved.display, column_name,
                                                       correct_set.value)),
                             seen_questions \cup {resolved.display}) :
                         column_name \in resolved.columns}

miss_load_answer_key(file, column_lookup) ==
    LET read == read_csv_rows(file)
    IN  IF read.raised THEN {ValueRaise(read.error)}
        ELSE miss_load_answer_key_rows(read.value, 1, column_lookup, <<>>, {})

\* The keys the model draws: files of up to MaxKeyRows rows made by hand, and
\* lists of up to MaxKeyRows questions that write_answer_key makes a file of.
MaxKeyRows == 2
KeyQuestionCells ==
    {<<"Q", "1">>, <<" ", "q", "1">>, <<"1">>, <<"Q", "A">>, <<"q", "a">>, <<"Q", "2">>}
KeyAnswerCells ==
    {<<"A">>, <<"b", ",", "c">>, <<"[", "B", ";", "C", "]">>, <<"x">>, <<>>}
KeyFileRows ==
    {KeyRow(question, answer, <<"1", ".", "0", "0">>) :
        question \in KeyQuestionCells, answer \in KeyAnswerCells}
KeyFiles == UNION {[1..n -> KeyFileRows] : n \in 1..MaxKeyRows}
KeyLetters ==
    {<<>>, << <<"a">> >>, << <<"b">>, <<"c">> >>, << <<"f">> >>}
KeyPointValues == {1000, 125, 0, 0 - 1000}
KeyQuestionLists ==
    {questions \in UNION {[1..n -> {Question(number, letters, pts) :
                                       number \in 1..(MaxKeyRows + 1), letters \in KeyLetters,
                                       pts \in KeyPointValues}] : n \in 1..MaxKeyRows} :
        \A i \in 1..(Len(questions) - 1) : questions[i].number < questions[i + 1].number}
RESULTS_COLUMNS == <<STUDENT_ID, <<"Q", "1">>, <<"Q", "2">>, <<"Q", "A">>>>

InitKey ==
    /\ KeyOnly
    /\ \/ ky_pc = "questions" /\ ky_questions \in KeyQuestionLists /\ ky_file = <<>>
       \/ ky_pc = "file" /\ ky_questions = <<>> /\ ky_file \in KeyFiles
    /\ ky_columns = RESULTS_COLUMNS
    /\ ky_grade = NotLoaded
    /\ ky_miss = NotLoaded
    /\ ky_give_back = NotLoaded

\* write_answer_key(key_path, questions)
WriteAnswerKey ==
    /\ ky_pc = "questions"
    /\ ky_file' \in write_answer_key(ky_questions)
    /\ ky_pc' = "file"
    /\ UNCHANGED <<ky_questions, ky_columns, ky_grade, ky_miss, ky_give_back>>
    /\ UNCHANGED <<layoutVars, scoreVars, gradeVars, missVars, giveBackVars, agreeVars, raceVars, tabVars, finalizeVars>>

\* load_answer_key of grade.py on the file
GradeLoadKey ==
    /\ ky_pc = "file"
    /\ ky_grade = NotLoaded
    /\ ky_grade' = load_answer_key(pd_read_key(ky_file))
    /\ UNCHANGED <<ky_questions, ky_file, ky_columns, ky_pc, ky_miss, ky_give_back>>
    /\ UNCHANGED <<layoutVars, scoreVars, gradeVars, missVars, giveBackVars, agreeVars, raceVars, tabVars, finalizeVars>>

\* load_answer_key of analyze_misses.py on the file
MissLoadKey ==
    /\ ky_pc = "file"
    /\ ky_miss = NotLoaded
    /\ ky_miss' \in miss_load_answer_key(ky_file, build_column_lookup(ky_columns))
    /\ UNCHANGED <<ky_questions, ky_file, ky_columns, ky_pc, ky_grade, ky_give_back>>
    /\ UNCHANGED <<layoutVars, scoreVars, gradeVars, missVars, giveBackVars, agreeVars, raceVars, tabVars, finalizeVars>>

\* load_answer_key of give_back_questions.py on the file
GiveBackLoadKey ==
    /\ ky_pc = "file"
    /\ ky_give_back = NotLoaded
    /\ ky_give_back' = gb_load_answer_key(pd_read_key(ky_file))
    /\ UNCHANGED <<ky_questions, ky_file, ky_columns, ky_pc, ky_grade, ky_miss>>
    /\ UNCHANGED <<layoutVars, scoreVars, gradeVars, missVars, giveBackVars, agreeVars, raceVars, tabVars, finalizeVars>>

NextKey == WriteAnswerKey \/ GradeLoadKey \/ MissLoadKey \/ GiveBackLoadKey

SpecKey == InitKey /\ [][NextKey]_vars

(***************************************************************************)
(* Claims about the answer key (checked under SpecKey)                     *)
(***************************************************************************)
\* The label of a Question cell: trimmed, case-folded, the leading Q taken
\* off and put back.
NormalizedLabel(text) ==
    LET folded == upper(strip(text))
        suffix == IF Len(folded) > 1 /\ Head(folded) = "Q" THEN strip(Tail(folded)) ELSE folded
    IN  <<"Q">> \o suffix
HasDuplicateLabels(file) ==
    \E i, j \in 1..Len(file) :
        i # j /\ NormalizedLabel(file[i].Question) = NormalizedLabel(file[j].Question)
GradeLoaded == ky_grade # NotLoaded
MissLoaded == ky_miss # NotLoaded
GiveBackLoaded == ky_give_back # NotLoaded

\* C15: a key file in which two rows have Question labels that normalize to
\* the same label is refused by load_answer_key of grade.py, of
\* analyze_misses.py and of give_back_questions.py.
C15_DuplicateLabelsRejected ==
    HasDuplicateLabels(ky_file) =>
        /\ GradeLoaded => ky_grade.raised
        /\ MissLoaded => ky_miss.raised
        /\ GiveBackLoaded => ky_give_back.raised

\* The option letters in the case grade.py keeps its tokens in.
VALID_OPTIONS_FOLDED == {lower(option) : option \in VALID_OPTIONS}

\* C16: every question of a key that load_answer_key of grade.py or of
\* analyze_misses.py has accepted has a correct-option set that is not empty
\* and holds letters of A..E only (in either case), so that a row with
\* another token in Correct_Answer makes the loader refuse the key.
C16_InvalidTokensRejected ==
    /\ (GradeLoaded /\ ~ky_grade.raised) =>
           \A q \in DOMAIN ky_grade.question_map :
               /\ ky_grade.question_map[q].correct_options # {}
               /\ ky_grade.question_map[q].correct_options \subseteq VALID_OPTIONS_FOLDED
    /\ (MissLoaded /\ ~ky_miss.raised) =>
           \A i \in 1..Len(ky_miss.value) :
               /\ ky_miss.value[i].correct_options # {}
               /\ ky_miss.value[i].correct_options \subseteq VALID_OPTIONS

\* The question id grade.py has for the question numbered n.
QuestionId(number) == <<"Q">> \o str_int(number)
WrittenAndLoaded == ky_questions # <<>> /\ ky_pc = "file" /\ GradeLoaded

\* C17: a key written by write_answer_key and read by load_answer_key of
\* grade.py is accepted, has the questions Q<n> in the order they were
\* written, and has for each of them the set of the correct letters and the
\* point value of the written question.
C17_RoundTrip ==
    WrittenAndLoaded =>
        /\ ~ky_grade.raised
        /\ ky_grade.order = [i \in 1..Len(ky_questions) |-> QuestionId(ky_questions[i].number)]
        /\ \A i \in 1..Len(ky_questions) :
               LET loaded == ky_grade.question_map[QuestionId(ky_questions[i].number)]
               IN  /\ loaded.correct_options = Range(ky_questions[i].correct_letters)
                   /\ loaded.points * 10 = ky_questions[i].points

(***************************************************************************)
(* grade.py and analyze_misses.py on the same response: one question of    *)
(* the key, one selected_answers cell, read by the tokenizer of each tool, *)
(* scored by _score_row and analysed by analyze_question with              *)
(* partial_threshold = 1.0.                                                *)
(***************************************************************************)
AgreeKeyLetters == <<"B", "C", "D", "E">>
AgreeKeyCells ==
    {FormatCell({AgreeKeyLetters[i] : i \in 1..n}, style) :
        n \in 1..MaxKeyLetters, style \in KeyStyles}
AgreeCells ==
    {FormatCell(S, style) :
        S \in {T \in SUBSET OptionLetters : Cardinality(T) <= MaxSelected},
        style \in ResponseStyles}
FULL_THRESHOLD == [num |-> 1, den |-> 1, offset |-> 0]

\* The key row as pandas reads it for grade.py.
AgreeKeyFrame == << [ag_key EXCEPT !.Correct_Answer = read_csv_cell(@)] >>

\* The response as a row of the long results table grade.py scores.
AgreeLongRow ==
    [student_id |-> <<"s", "1">>, question_id |-> ag_key.Question,
     selected_answers |-> fillna(read_csv_cell(ag_cell), <<>>)]

\* The response as a row of the wide results table analyze_misses.py reads.
AgreeWideRow ==
    [k \in {STUDENT_ID, Q1_COLUMN} |-> IF k = STUDENT_ID THEN <<"s", "1">> ELSE ag_cell]

InitAgree ==
    /\ AgreeOnly
    /\ \E cell \in AgreeKeyCells, pts \in PointValues : ag_key = KeyRow(Q1_COLUMN, cell, pts)
    /\ ag_cell \in AgreeCells
    /\ ag_tokens = [grade |-> NotLoaded, miss |-> NotLoaded]
    /\ ag_score = NotLoaded
    /\ ag_miss = NotLoaded

\* _tokenize_answers of grade.py on the cell.
TokenizeAnswers ==
    /\ ag_tokens.grade = NotLoaded
    /\ ag_tokens' = [ag_tokens EXCEPT
                        !.grade = Returned(_tokenize_answers(fillna(read_csv_cell(ag_cell), <<>>)))]
    /\ UNCHANGED <<ag_key, ag_cell, ag_score, ag_miss>>
    /\ UNCHANGED <<layoutVars, scoreVars, gradeVars, missVars, giveBackVars, keyVars, raceVars, tabVars, finalizeVars>>

\* tokenize_options of analyze_misses.py on the cell.
TokenizeOptions ==
    /\ ag_tokens.miss = NotLoaded
    /\ ag_tokens' = [ag_tokens EXCEPT !.miss = Returned(tokenize_options(ag_cell))]
    /\ UNCHANGED <<ag_key, ag_cell, ag_score, ag_miss>>
    /\ UNCHANGED <<layoutVars, scoreVars, gradeVars, missVars, giveBackVars, keyVars, raceVars, tabVars, finalizeVars>>

\* _score_row on the response, with the answer map load_answer_key returns
\* for the key row.
ScoreResponse ==
    /\ ag_score = NotLoaded
    /\ ~load_answer_key(AgreeKeyFrame).raised
    /\ ag_score' = _score_row(AgreeLongRow, load_answer_key(AgreeKeyFrame).question_map)
    /\ UNCHANGED <<ag_key, ag_cell, ag_tokens, ag_miss>>
    /\ UNCHANGED <<layoutVars, scoreVars, gradeVars, missVars, giveBackVars, keyVars, raceVars, tabVars, finalizeVars>>

\* analyze_question on the response, with the correct options
\* parse_answer_value returns for the key row and partial_threshold = 1.0.
AnalyzeResponse ==
    /\ ag_miss = NotLoaded
    /\ ~parse_answer_value(strip(ag_key.Correct_Answer)).raised
    /\ ag_miss' = analyze_question(
                      AnswerSpec(ag_key.Question, Q1_COLUMN,
                                 parse_answer_value(strip(ag_key.Correct_Answer)).value),
                      <<AgreeWideRow>>, FULL_THRESHOLD, <<>>)
    /\ UNCHANGED <<ag_key, ag_cell, ag_tokens, ag_score>>
    /\ UNCHANGED <<layoutVars, scoreVars, gradeVars, missVars, giveBackVars, keyVars, raceVars, tabVars, finalizeVars>>

NextAgree == TokenizeAnswers \/ TokenizeOptions \/ ScoreResponse \/ AnalyzeResponse

SpecAgree == InitAgree /\ [][NextAgree]_vars

(***************************************************************************)
(* Claims about the two tools on the same response.                        *)
(***************************************************************************)
\* C26: for every cell built from the letters A-E with commas, semicolons or
\* brackets, _tokenize_answers of grade.py and tokenize_options of
\* analyze_misses.py give the same set of options up to letter case.
C26_TokenizersAgree ==
    (ag_tokens # NotLoaded /\ ag_tokens.grade # NotLoaded /\ ag_tokens.miss # NotLoaded) =>
        {upper(token) : token \in Range(ag_tokens.grade.value)} = Range(ag_tokens.miss.value)

\* A cell of letters A-E, in either case, separated by commas and blanks.
CommaSeparated(cell) ==
    \A i \in 1..Len(cell) :
        cell[i] \in OptionLetters \cup {char_lower(c) : c \in OptionLetters} \cup {",", " "}

WholePoints(pts) == pts >= 100 /\ pts % 100 = 0

\* C29: with partial_threshold = 1.0, a question worth a whole number of
\* points P >= 1 and a cell of comma-separated letters A-E, analyze_question
\* counts the response as not missed exactly when _score_row awards P.
C29_FullCreditIffNotMissed ==
    (/\ ag_score # NotLoaded
     /\ ag_miss # NotLoaded
     /\ WholePoints(ag_key.Points)
     /\ CommaSeparated(ag_cell)) =>
        /\ ~ag_score.raised
        /\ (ag_miss.missed = 0) <=> (ag_score.score = ag_key.Points)

\* One of the two correct options and nothing else, for four points: two
\* points from grade.py, a miss for analyze_misses.py.
C29_Witness ==
    /\ ag_score # NotLoaded
    /\ ag_miss # NotLoaded
    /\ ag_key = KeyRow(Q1_COLUMN, FormatCell({"B", "C"}, "lower"), 400)
    /\ ag_cell = FormatCell({"C"}, "lower_space")
    /\ ag_score.score = 200
    /\ ag_miss.missed = 1

(***************************************************************************)
(* give_back_questions.py: two runs of main with one version label and one *)
(* output directory.  Each run is a process of its own; the files of the   *)
(* output directory are all they share, and nothing orders their steps.    *)
(* A step is what main does between two accesses to those files.           *)
(***************************************************************************)
RaceRuns == {1, 2}
RaceVersion == <<"v", "2">>
RaceKey ==
    <<GiveBackKeyRow(<<"Q", "1">>, <<"A">>),
      GiveBackKeyRow(<<"q", "2", " ">>, <<" ", "b", ",", " ", "c">>),
      GiveBackKeyRow(<<"Q", "3">>, <<"E">>)>>
RaceLists == {<<"Q", "1">>, <<"Q", "3">>, <<" ", ",">>}
RaceLastRow ==
    [student_id |-> <<"s", "1">>, question_id |-> <<"Q", "3">>, selected_answers |-> <<"A">>]
RaceResults == {r \in [1..2 -> GiveBackResultRows] : r[2] = RaceLastRow}

RaceEvent(run, event) == [run |-> run, event |-> event]
RunState(pc, question_ids, results_df, answer_key) ==
    [pc |-> pc, question_ids |-> question_ids, results_df |-> results_df,
     answer_key |-> answer_key]

InitRace ==
    /\ RaceOnly
    /\ \E results \in RaceResults, give_back \in [RaceRuns -> RaceLists],
          existing \in {{}, {ADJUSTED_RESULTS}} :
           rc_args = [results |-> results, key |-> RaceKey, give_back |-> give_back,
                      version |-> RaceVersion, existing |-> existing]
    /\ rc_runs = [run \in RaceRuns |-> RunState("start", <<>>, <<>>, <<>>)]
    /\ rc_files = [path \in RunFiles |->
                      IF path \in rc_args.existing THEN OldOutput ELSE AbsentOutput]
    /\ rc_trace = <<>>

\* main of one run up to the call of apply_give_backs: normalize_version,
\* parse_question_list, ensure_outputs_available, load_results,
\* load_answer_key, ensure_questions_exist.  The look at the output paths is
\* its only access to the shared files.
CheckOutputs(run) ==
    /\ rc_runs[run].pc = "start"
    /\ LET version == normalize_version(rc_args.version)
           ids == parse_question_list(rc_args.give_back[run])
           key == gb_load_answer_key(rc_args.key)
           refused == ensure_outputs_available_raises(OUTPUT_PATHS, rc_files)
       IN  IF version.raised \/ ids.raised
           THEN /\ rc_runs' = [rc_runs EXCEPT ![run].pc = "AdjustmentError"]
                /\ rc_trace' = rc_trace
           ELSE IF refused
           THEN /\ rc_runs' = [rc_runs EXCEPT ![run].pc = "AdjustmentError"]
                /\ rc_trace' = Append(rc_trace, RaceEvent(run, "refused"))
           ELSE IF key.raised
           THEN /\ rc_runs' = [rc_runs EXCEPT ![run].pc = "AdjustmentError"]
                /\ rc_trace' = Append(rc_trace, RaceEvent(run, "passed"))
           ELSE /\ rc_runs' = [rc_runs EXCEPT ![run] =
                       RunState(IF ensure_questions_exist_raises(ids.value, key.value)
                                THEN "AdjustmentError" ELSE "loaded",
                                ids.value, load_results(rc_args.results), key.value)]
                /\ rc_trace' = Append(rc_trace, RaceEvent(run, "passed"))
    /\ UNCHANGED <<rc_args, rc_files>>
    /\ UNCHANGED <<layoutVars, scoreVars, gradeVars, missVars, giveBackVars, keyVars, agreeVars, tabVars, finalizeVars>>

\* apply_give_backs and results_df.to_csv(adjusted_results_path): the file
\* is written whether it is there or not.
SaveResults(run) ==
    /\ rc_runs[run].pc = "loaded"
    /\ LET r == apply_give_backs(rc_runs[run].results_df, rc_runs[run].answer_key,
                                 rc_runs[run].question_ids)
       IN  IF r.raised
           THEN /\ rc_runs' = [rc_runs EXCEPT ![run].pc = "KeyError",
                                              ![run].results_df = r.results_df]
                /\ UNCHANGED <<rc_files, rc_trace>>
           ELSE /\ rc_runs' = [rc_runs EXCEPT ![run].pc = "saved",
                                              ![run].results_df = r.results_df]
                /\ rc_files' = [rc_files EXCEPT
                                   ![ADJUSTED_RESULTS] = WrittenFile(to_csv(r.results_df))]
                /\ rc_trace' = Append(rc_trace, RaceEvent(run, "wrote"))
    /\ UNCHANGED rc_args
    /\ UNCHANGED <<layoutVars, scoreVars, gradeVars, missVars, giveBackVars, keyVars, agreeVars, tabVars, finalizeVars>>

\* run_grade_pipeline on the file that is at adjusted_results_path now, and
\* the end of main without --log.
GradeReports(run) ==
    /\ rc_runs[run].pc = "saved"
    /\ LET r == run_grade_pipeline(rc_files, rc_args.key)
       IN  IF r.raised
           THEN /\ rc_runs' = [rc_runs EXCEPT ![run].pc = "AdjustmentError"]
                /\ rc_files' = rc_files
           ELSE /\ rc_runs' = [rc_runs EXCEPT ![run].pc = "done"]
                /\ rc_files' \in r.value
    /\ UNCHANGED <<rc_args, rc_trace>>
    /\ UNCHANGED <<layoutVars, scoreVars, gradeVars, missVars, giveBackVars, keyVars, agreeVars, tabVars, finalizeVars>>

NextRace == \E run \in RaceRuns : CheckOutputs(run) \/ SaveResults(run) \/ GradeReports(run)

SpecRace == InitRace /\ [][NextRace]_vars

(***************************************************************************)
(* Claims about two give-back runs (checked under SpecRace)                *)
(***************************************************************************)
ChecksOf(run) ==
    {i \in 1..Len(rc_trace) :
        rc_trace[i].run = run /\ rc_trace[i].event \in {"passed", "refused"}}
WritesOf(run) ==
    {i \in 1..Len(rc_trace) : rc_trace[i].run = run /\ rc_trace[i].event = "wrote"}
AllWrites == UNION {WritesOf(run) : run \in RaceRuns}
LastWriter == rc_trace[CHOOSE i \in AllWrites : \A j \in AllWrites : j <= i].run

\* C23: nothing keeps two runs with one version label apart but the look at
\* the output paths.  A run that looks after the other has written is
\* refused and writes nothing; a run writes over the other's
\* <version>_results.csv only when both have looked before either wrote; and
\* the file then holds what the later run wrote.
C23_OnlyThePreExistenceCheck ==
    /\ \A p \in RaceRuns : \A q \in RaceRuns \ {p} :
          /\ \A i \in WritesOf(q) : \A j \in ChecksOf(p) :
                 j > i => rc_trace[j].event = "refused" /\ WritesOf(p) = {}
          /\ \A i \in WritesOf(q) : \A j \in WritesOf(p) :
                 i < j => \A k \in ChecksOf(p) \cup ChecksOf(q) :
                              k < i /\ rc_trace[k].event = "passed"
    /\ AllWrites # {} =>
           rc_files[ADJUSTED_RESULTS] = WrittenFile(to_csv(rc_runs[LastWriter].results_df))

\* Both runs pass the check, then run 1 writes and run 2 writes over it:
\* the file holds the frame of run 2, which is not the frame of run 1.
C23_Witness ==
    /\ rc_trace = <<RaceEvent(1, "passed"), RaceEvent(2, "passed"),
                    RaceEvent(1, "wrote"), RaceEvent(2, "wrote")>>
    /\ rc_files[ADJUSTED_RESULTS] = WrittenFile(to_csv(rc_runs[2].results_df))
    /\ to_csv(rc_runs[1].results_df) # to_csv(rc_runs[2].results_df)

(***************************************************************************)
(* test_manager_gui: the tab widget of main.py and the Test Manager tab.   *)
(* Qt delivers a signal by calling the slot, so a handler runs to its end  *)
(* before the next event; currentChanged is the one signal the model       *)
(* delivers in a step of its own, to show the tab widget while             *)
(* _handle_tab_change has not returned.                                    *)
(***************************************************************************)
\* BubblexanWindow._init_ui: the five tabs in the order of their indices,
\* each with its requires_test.
MANAGED_TABS ==
    <<[title |-> "Test Manager", requires_test |-> FALSE],
      [title |-> "Bubble Sheet Generator", requires_test |-> TRUE],
      [title |-> "QTI Test Generator", requires_test |-> TRUE],
      [title |-> "Answer Key Import", requires_test |-> TRUE],
      [title |-> "PDF to PNG Conversion", requires_test |-> TRUE]>>
TabIndices == 0..(Len(MANAGED_TABS) - 1)
NO_TAB == -1

\* add_managed_tab: _requires_test of the widget at an index.
_requires_test(index) == MANAGED_TABS[index + 1].requires_test

\* add_managed_tab: _default_tab is the first tab added with
\* requires_test=False, None (NO_TAB) when there is none.
_default_tab ==
    IF \A index \in TabIndices : _requires_test(index) THEN NO_TAB
    ELSE CHOOSE index \in TabIndices :
             /\ ~_requires_test(index)
             /\ \A other \in TabIndices : ~_requires_test(other) => index <= other

\* None and the empty string, both falsy.
NoTest == <<>>

\* Mutant of tab_after_handling: the warning is shown and the tab is left
\* where it is.
tab_after_handling_kept(index, current, active_test_name) == current

\* _handle_tab_change from its first line to its last: the current tab when
\* it returns.
tab_after_handling(index, current, active_test_name) ==
    IF index < 0 THEN current
    ELSE IF ~_requires_test(index) THEN current
    ELSE IF active_test_name # NoTest THEN current
    ELSE IF _default_tab # NO_TAB THEN _default_tab
    ELSE current

\* TRUE when _handle_tab_change shows its warning.
tab_change_warns(index, active_test_name) ==
    index >= 0 /\ _requires_test(index) /\ active_test_name = NoTest

\* _extract_title_and_timestamp: folder_name.rsplit("_", 2) and the checks
\* of its three parts; NoTest stands for (None, None).
_extract_title_and_timestamp(folder_name) ==
    LET marks == {i \in 1..Len(folder_name) : folder_name[i] = "_"}
        last == CHOOSE i \in marks : \A j \in marks : j <= i
        prev == CHOOSE i \in marks \ {last} : \A j \in marks \ {last} : j <= i
    IN  IF Cardinality(marks) < 2 THEN NoTest
        ELSE IF prev = 1 \/ last = prev + 1 \/ last = Len(folder_name) THEN NoTest
        ELSE [title |-> SubSeq(folder_name, 1, prev - 1),
              timestamp |-> SubSeq(folder_name, prev + 1, Len(folder_name))]

SELECT_A_TEST == [title |-> <<"S", "e", "l", "e", "c", "t">>, data |-> NoTest]

\* The loop of _load_existing_tests over sorted(iterdir()), from position i
\* on: the titles seen and the items added.
RECURSIVE load_folders(_, _, _, _)
load_folders(folders, i, titles, items) ==
    IF i > Len(folders) THEN [titles |-> titles, items |-> items]
    ELSE LET parts == _extract_title_and_timestamp(folders[i])
         IN  IF parts = NoTest THEN load_folders(folders, i + 1, titles, items)
             ELSE IF parts.title \in titles THEN load_folders(folders, i + 1, titles, items)
             ELSE load_folders(folders, i + 1, titles \cup {parts.title},
                               Append(items, [title |-> parts.title, data |-> folders[i]]))

\* _load_existing_tests: _existing_titles and the selector, whose signals
\* are blocked meanwhile; the first item added becomes the current one.
_load_existing_tests(folders) ==
    LET loaded == load_folders(sorted(folders), 1, {}, <<SELECT_A_TEST>>)
    IN  [titles |-> loaded.titles, selector |-> [items |-> loaded.items, index |-> 0]]

\* test_selector.findData(folder_name): the index of the item, -1 for none.
findData(selector, folder_name) ==
    LET found == {i \in 1..Len(selector.items) : selector.items[i].data = folder_name}
    IN  IF found = {} THEN -1 ELSE (CHOOSE i \in found : \A j \in found : i <= j) - 1

\* _create_test_folder: the ValueError or OSError it raises, or the folder
\* name it made.
_create_test_folder(raw_name, timestamp, titles, folders) ==
    LET folder_name == raw_name \o <<"_">> \o timestamp
    IN  IF raw_name = <<>> THEN [raised |-> "ValueError", folder_name |-> NoTest]
        ELSE IF \E i \in 1..Len(raw_name) : raw_name[i] \notin VERSION_CHARACTERS
        THEN [raised |-> "ValueError", folder_name |-> NoTest]
        ELSE IF raw_name \in titles THEN [raised |-> "ValueError", folder_name |-> NoTest]
        ELSE IF folder_name \in folders THEN [raised |-> "OSError", folder_name |-> NoTest]
        ELSE [raised |-> "none", folder_name |-> folder_name]

\* _handle_selection for the item at index, called by currentIndexChanged:
\* what it leaves of the active test, the titles, the selector, the dialog.
_handle_selection(index, active, titles, selector, folders, dialog) ==
    LET folder_name == selector.items[index + 1].data
        same == [active |-> active, titles |-> titles, selector |-> selector,
                 dialog |-> dialog]
    IN  IF index < 0 \/ folder_name = NoTest THEN same
        ELSE IF folder_name \notin folders
        THEN [active |-> active, titles |-> _load_existing_tests(folders).titles,
              selector |-> _load_existing_tests(folders).selector,
              dialog |-> "Missing Folder"]
        ELSE [same EXCEPT !.active = folder_name, !.dialog = "Selected test"]

\* The names typed, the minutes of the clock, and the folders that are in
\* TEST_BUILD_PATH when the window opens.
RequestedNames ==
    {<<>>, <<" ", "t", "1", " ">>, <<"t", "_", "2">>, <<"a", " ", "b">>}
Timestamps == {<<"7", "_", "5">>, <<"7", "_", "6">>}
StartFolders == {{}, {<<"t", "1", "_", "7", "_", "5">>}, {<<"j", "u", "n", "k">>}}

\* The window as BubblexanWindow builds it: the Test Manager tab is added
\* first and becomes the current one, the selector is loaded, no test is
\* active.
InitTabs ==
    /\ TabsOnly
    /\ tb_current = 0
    /\ tb_handler = NO_TAB
    /\ tb_active = NoTest
    /\ tb_folders \in StartFolders
    /\ tb_titles = _load_existing_tests(tb_folders).titles
    /\ tb_selector = _load_existing_tests(tb_folders).selector
    /\ tb_dialog = "none"

\* A click on another tab: QTabWidget makes it the current one and emits
\* currentChanged(index), which calls _handle_tab_change.
SelectTab ==
    /\ tb_handler = NO_TAB
    /\ \E index \in TabIndices \ {tb_current} :
           /\ tb_current' = index
           /\ tb_handler' = index
    /\ UNCHANGED <<tb_active, tb_folders, tb_titles, tb_selector, tb_dialog>>
    /\ UNCHANGED <<layoutVars, scoreVars, gradeVars, missVars, giveBackVars, keyVars, agreeVars, raceVars, finalizeVars>>

\* _handle_tab_change(index) to its return; setCurrentWidget runs with the
\* signals blocked, so the handler is not called again.
HandleTabChange ==
    /\ tb_handler # NO_TAB
    /\ tb_current' = tab_after_handling(tb_handler, tb_current, tb_active)
    /\ tb_dialog' = IF tab_change_warns(tb_handler, tb_active) THEN "Select a test"
                    ELSE tb_dialog
    /\ tb_handler' = NO_TAB
    /\ UNCHANGED <<tb_active, tb_folders, tb_titles, tb_selector>>
    /\ UNCHANGED <<layoutVars, scoreVars, gradeVars, missVars, giveBackVars, keyVars, agreeVars, raceVars, finalizeVars>>

\* _handle_create, for the text of test_name_input and the minute of the
\* clock: the button is on the Test Manager tab.  setCurrentIndex on the
\* reloaded selector emits currentIndexChanged, which calls
\* _handle_selection before ACTIVE_TEST_NAME is assigned.
HandleCreate ==
    /\ tb_handler = NO_TAB
    /\ tb_current = 0
    /\ \E text \in RequestedNames, timestamp \in Timestamps :
           LET created == _create_test_folder(strip(text), timestamp, tb_titles, tb_folders)
               folders == tb_folders \cup {created.folder_name}
               loaded == _load_existing_tests(folders)
               index == findData(loaded.selector, created.folder_name)
               selected == IF index # -1 /\ index # loaded.selector.index
                           THEN _handle_selection(index, tb_active, loaded.titles,
                                    [loaded.selector EXCEPT !.index = index], folders,
                                    tb_dialog)
                           ELSE [active |-> tb_active, titles |-> loaded.titles,
                                 selector |-> loaded.selector, dialog |-> tb_dialog]
           IN  IF created.raised = "ValueError"
               THEN /\ tb_dialog' = "Invalid Test Name"
                    /\ UNCHANGED <<tb_active, tb_folders, tb_titles, tb_selector>>
               ELSE IF created.raised = "OSError"
               THEN /\ tb_dialog' = "Folder Error"
                    /\ UNCHANGED <<tb_active, tb_folders, tb_titles, tb_selector>>
               ELSE /\ tb_folders' = folders
                    /\ tb_titles' = selected.titles
                    /\ tb_selector' = selected.selector
                    /\ tb_active' = created.folder_name
                    /\ tb_dialog' = "Test folder created"
    /\ UNCHANGED <<tb_current, tb_handler>>
    /\ UNCHANGED <<layoutVars, scoreVars, gradeVars, missVars, giveBackVars, keyVars, agreeVars, raceVars, finalizeVars>>

\* Another item picked in test_selector: currentIndexChanged(index) calls
\* _handle_selection.
HandleSelection ==
    /\ tb_handler = NO_TAB
    /\ tb_current = 0
    /\ \E index \in 0..(Len(tb_selector.items) - 1) :
           /\ index # tb_selector.index
           /\ LET selected == _handle_selection(index, tb_active, tb_titles,
                                  [tb_selector EXCEPT !.index = index], tb_folders, tb_dialog)
              IN  /\ tb_active' = selected.active
                  /\ tb_titles' = selected.titles
                  /\ tb_selector' = selected.selector
                  /\ tb_dialog' = selected.dialog
    /\ UNCHANGED <<tb_current, tb_handler, tb_folders>>
    /\ UNCHANGED <<layoutVars, scoreVars, gradeVars, missVars, giveBackVars, keyVars, agreeVars, raceVars, finalizeVars>>

NextTabs == SelectTab \/ HandleTabChange \/ HandleCreate \/ HandleSelection

SpecTabs == InitTabs /\ [][NextTabs]_vars

(***************************************************************************)
(* Claims about the tab widget (checked under SpecTabs)                    *)
(***************************************************************************)
\* C24: whenever _handle_tab_change is not running, the current tab is one
\* registered with requires_test=True only if ACTIVE_TEST_NAME is set; and
\* the handler, called for such a tab while no test is active, returns with
\* the default (Test Manager) tab current.
C24_ToolTabsNeedActiveTest ==
    /\ [](tb_handler = NO_TAB => (_requires_test(tb_current) => tb_active # NoTest))
    /\ [][(/\ tb_handler # NO_TAB
           /\ tb_handler' = NO_TAB
           /\ _requires_test(tb_handler)
           /\ tb_active = NoTest) => tb_current' = 0 /\ tb_active' = NoTest]_vars

\* The handler has returned from its warning: the Test Manager tab is
\* current and no test is active, though a test folder is there to select.
C24_Witness ==
    /\ tb_handler = NO_TAB
    /\ tb_dialog = "Select a test"
    /\ tb_current = 0
    /\ tb_active = NoTest
    /\ tb_folders # {}

(***************************************************************************)
(* test_manager_gui: the Grade Adjustment tab (grade_adjustment_gui.py)    *)
(* of an active test whose results, answer key and graded reports exist.   *)
(* A file of adjustments/ is the pair of its version and its suffix.       *)
(***************************************************************************)
MaxAdjustments == 2
ADJUSTMENT_PREFIX == <<"a", "d", "j", "u", "s", "t", "m", "e", "n", "t">>
NoVersion == <<>>

FileContent(version, give_back) == [version |-> version, give_back |-> give_back]
ORIGINAL_GRADES == FileContent(NoVersion, <<>>)

\* list_adjustment_versions: the stems of adjustments/*_results.csv, sorted.
list_adjustment_versions(adjustments) ==
    sorted({path[1] : path \in {p \in DOMAIN adjustments : p[2] = ADJUSTED_RESULTS}})

\* int(version.split("_")[-1]) for a version that starts with "adjustment_":
\* 0 stands for the ValueError and for a value that cannot raise the maximum.
adjustment_index(version) ==
    LET marks == {i \in 1..Len(version) : version[i] = "_"}
        last == CHOOSE i \in marks : \A j \in marks : j <= i
        number == SubSeq(version, last + 1, Len(version))
        start == Len(ADJUSTMENT_PREFIX) + 1
    IN  IF Len(version) < start THEN 0
        ELSE IF SubSeq(version, 1, start) # ADJUSTMENT_PREFIX \o <<"_">> THEN 0
        ELSE IF number = <<>> \/ \E i \in 1..Len(number) : number[i] \notin Range(DIGITS) THEN 0
        ELSE int_of(number)

\* next_adjustment_version: "adjustment_" and the largest index in use plus 1.
next_adjustment_version(existing) ==
    LET indices == {adjustment_index(existing[i]) : i \in 1..Len(existing)} \cup {0}
        max_index == CHOOSE n \in indices : \A m \in indices : m <= n
    IN  ADJUSTMENT_PREFIX \o <<"_">> \o str_int(max_index + 1)

\* is_valid_version_label
is_valid_version_label(value) ==
    /\ value # <<>>
    /\ strip(value) # <<>>
    /\ \A i \in 1..Len(strip(value)) : strip(value)[i] \in VERSION_CHARACTERS

\* version_combo.currentText()
currentText(combo) == IF combo.index < 0 THEN <<>> ELSE combo.items[combo.index + 1]

\* _refresh_versions: the combo is cleared and filled with its signals
\* blocked; the first item becomes the current one, then select_version if
\* it is among the versions.
_refresh_versions(adjustments, select_version) ==
    LET versions == list_adjustment_versions(adjustments)
        found == {i \in 1..Len(versions) : versions[i] = select_version}
    IN  [items |-> versions,
         index |-> IF select_version # NoVersion /\ found # {}
                   THEN (CHOOSE i \in found : TRUE) - 1
                   ELSE IF versions = <<>> THEN -1 ELSE 0]

\* The files a run of give_back_questions.py with --version, --output-dir
\* adjustments and --log can leave, each with its return code: refused when an
\* output is there, <version>_results.csv alone when grade.py fails, all
\* four files otherwise.
give_back_cli(adjustments, version, give_back) ==
    LET written(suffixes) ==
            [path \in (DOMAIN adjustments) \cup {<<version, suffix>> : suffix \in suffixes} |->
                IF path[1] = version /\ path[2] \in suffixes
                THEN FileContent(version, give_back) ELSE adjustments[path]]
    IN  IF \E i \in 1..Len(OUTPUT_PATHS) : <<version, OUTPUT_PATHS[i]>> \in DOMAIN adjustments
        THEN {[returncode |-> 1, adjustments |-> adjustments]}
        ELSE {[returncode |-> 1, adjustments |-> written({ADJUSTED_RESULTS})],
              [returncode |-> 0, adjustments |-> written(RunFiles)]}

\* src.replace(dst), on the side of the source directory: the file is
\* renamed, so it is no longer where it was.
path_replace(files, source) == [path \in (DOMAIN files) \ {source} |-> files[path]]

\* The texts of version_input, the questions gathered, and the answers to
\* the question box of Finalize Grades.
VersionTexts == {<<>>, <<" ", "f", "i", "n", "a", "l">>, <<"v", " ", "1">>}
QuestionSelections == {<<>>, <<<<"Q", "1">>>>, <<<<"Q", "1">>, <<"Q", "3">>>>}
Replies == {"Yes", "No"}
ABORTED == "Grades finalized, then AttributeError"

InitFinalize ==
    /\ FinalizeOnly
    /\ fz_adjustments = EmptyMap
    /\ fz_grades = [path \in {GRADED_CSV, GRADED_XLSX} |-> ORIGINAL_GRADES]
    /\ fz_combo = _refresh_versions(EmptyMap, NoVersion)
    /\ fz_dialog = "none"

\* showEvent: the tab is shown (again, or after a restart of the
\* application): _evaluate_inputs and _refresh_versions().
ShowEvent ==
    /\ fz_combo' = _refresh_versions(fz_adjustments, NoVersion)
    /\ fz_dialog' = "none"
    /\ UNCHANGED <<fz_adjustments, fz_grades>>
    /\ UNCHANGED <<layoutVars, scoreVars, gradeVars, missVars, giveBackVars, keyVars, agreeVars, raceVars, tabVars>>

\* Another item picked in version_combo: currentTextChanged calls
\* _update_review_buttons, which only enables and disables buttons.
SelectVersion ==
    /\ fz_dialog # ABORTED
    /\ \E index \in 0..(Len(fz_combo.items) - 1) :
           /\ index # fz_combo.index
           /\ fz_combo' = [fz_combo EXCEPT !.index = index]
    /\ UNCHANGED <<fz_adjustments, fz_grades, fz_dialog>>
    /\ UNCHANGED <<layoutVars, scoreVars, gradeVars, missVars, giveBackVars, keyVars, agreeVars, raceVars, tabVars>>

\* _save_adjustment, for the text of version_input and the questions
\* selected; at most MaxAdjustments versions are saved.
SaveAdjustment ==
    /\ fz_dialog # ABORTED
    /\ \E text \in VersionTexts, questions \in QuestionSelections :
           LET existing == list_adjustment_versions(fz_adjustments)
               version == IF strip(text) # <<>> THEN strip(text)
                          ELSE next_adjustment_version(existing)
           IN  IF questions = <<>>
               THEN /\ fz_dialog' = "Select questions"
                    /\ UNCHANGED <<fz_adjustments, fz_combo>>
               ELSE IF ~is_valid_version_label(version)
               THEN /\ fz_dialog' = "Invalid version name"
                    /\ UNCHANGED <<fz_adjustments, fz_combo>>
               ELSE /\ Len(existing) < MaxAdjustments \/ <<version, ADJUSTED_RESULTS>> \in DOMAIN fz_adjustments
                    /\ \E result \in give_back_cli(fz_adjustments, version, questions) :
                           /\ fz_adjustments' = result.adjustments
                           /\ IF result.returncode # 0
                              THEN fz_dialog' = "Adjustment failed" /\ fz_combo' = fz_combo
                              ELSE /\ fz_dialog' = "Saved adjustment"
                                   /\ fz_combo' = _refresh_versions(result.adjustments, version)
    /\ UNCHANGED fz_grades
    /\ UNCHANGED <<layoutVars, scoreVars, gradeVars, missVars, giveBackVars, keyVars, agreeVars, raceVars, tabVars>>

\* _finalize_adjustment, for the answer to its question box.  Its last line
\* calls _update_final_grade_button, which the class does not have: the
\* AttributeError comes after the files are moved and the box "Grades
\* finalized" is shown, and an exception that leaves a slot ends the
\* application.
FinalizeAdjustment ==
    /\ fz_dialog # ABORTED
    /\ \E reply \in Replies :
           LET version == strip(currentText(fz_combo))
               src_csv == <<version, FINAL_CSV>>
               src_xlsx == <<version, FINAL_XLSX>>
           IN  IF version = <<>>
               THEN /\ fz_dialog' = "Select a version"
                    /\ UNCHANGED <<fz_adjustments, fz_grades>>
               ELSE IF reply # "Yes"
               THEN /\ fz_dialog' = "Finalize grades"
                    /\ UNCHANGED <<fz_adjustments, fz_grades>>
               ELSE IF src_csv \notin DOMAIN fz_adjustments \/ src_xlsx \notin DOMAIN fz_adjustments
               THEN /\ fz_dialog' = "Files missing"
                    /\ UNCHANGED <<fz_adjustments, fz_grades>>
               ELSE /\ fz_grades' = [fz_grades EXCEPT ![GRADED_CSV] = fz_adjustments[src_csv],
                                                      ![GRADED_XLSX] = fz_adjustments[src_xlsx]]
                    /\ fz_adjustments' = path_replace(path_replace(fz_adjustments, src_csv), src_xlsx)
                    /\ fz_dialog' = ABORTED
    /\ UNCHANGED fz_combo
    /\ UNCHANGED <<layoutVars, scoreVars, gradeVars, missVars, giveBackVars, keyVars, agreeVars, raceVars, tabVars>>

NextFinalize == ShowEvent \/ SelectVersion \/ SaveAdjustment \/ FinalizeAdjustment

SpecFinalize == InitFinalize /\ [][NextFinalize]_vars

(***************************************************************************)
(* Claims about Finalize Grades (checked under SpecFinalize)               *)
(***************************************************************************)
\* C25: a step of Finalize Grades that finalizes puts the graded reports of
\* the selected version into grades/ and leaves adjustments/ as it was, so
\* the version still has both of its graded reports.
C25_FinalizeLeavesAdjustment ==
    [][(fz_dialog # ABORTED /\ fz_dialog' = ABORTED) =>
          LET version == strip(currentText(fz_combo))
          IN  /\ fz_grades'[GRADED_CSV] = fz_adjustments[<<version, FINAL_CSV>>]
              /\ fz_grades'[GRADED_XLSX] = fz_adjustments[<<version, FINAL_XLSX>>]
              /\ fz_adjustments' = fz_adjustments
              /\ <<version, FINAL_CSV>> \in DOMAIN fz_adjustments'
              /\ <<version, FINAL_XLSX>> \in DOMAIN fz_adjustments']_vars

====
